---- MODULE Spec2Model ----
(***************************************************************************)
(* Frame analysis pipeline of movietag (backend/app/tasks/frames.py,       *)
(* backend/app/tasks/vision.py, backend/app/services/film_matcher.py).     *)
(*                                                                         *)
(* Encoding conventions                                                    *)
(*   - a Frame row is a record, the frames table a sequence whose index is *)
(*     the primary key; NullId (0), NullStr and NullConf stand for SQL     *)
(*     NULL / Python None of id, text and float columns;                   *)
(*   - an image content is an integer: 0 absent, Junk (-1) bytes that PIL  *)
(*     cannot open, k > 0 a readable image;                                *)
(*   - a content embedding is an integer handle e with dimension Dim(e)    *)
(*     and a fixed cosine table Cos(a, b) in units of 1e-5;                *)
(*   - confidences of the matcher are in units of 1e-4, face confidences   *)
(*     in units of 1e-3, face embeddings are integer vectors of norm 5;    *)
(*   - the optional external services (embedding_service_url,              *)
(*     vision_service_url, face_analytics_service_url) are unset, which is *)
(*     their default in core/settings.py.                                  *)
(***************************************************************************)
EXTENDS Integers, Sequences, FiniteSets, TLC

VARIABLES
    frames,      \* frames table: Seq of Frame rows, id = index
    sceneAttrs,  \* scene_attributes table: [frame id -> Seq of rows]
    actorDets,   \* actor_detections table: [frame id -> Seq of rows]
    frameTags,   \* frame_tags table: [frame id -> set of tag names]
    localFiles,  \* local file system: [path -> content]
    tasks,       \* ingest_and_tag_frame task instances
    enrichQ,     \* enqueued enrich_frame_metadata calls
    batch,       \* the analyze_frames task instance
    probe,       \* observation of the last stage call (history variable)
    clip,        \* one call of classify_attributes_with_clip
    frameEmbeddings, \* frame_embeddings table: Seq of rows
    calls,       \* the requests running vision_service.analyze_frame
    engine,      \* one embedding computed by the embedding engine
    sessions     \* database sessions of concurrent detect_actor_faces runs

\* state of the services that the stage functions call
serviceVars == <<clip, frameEmbeddings, calls, engine, sessions>>

vars == <<frames, sceneAttrs, actorDets, frameTags, localFiles, tasks, enrichQ, batch, probe,
          serviceVars>>

----------------------------------------------------------------------------
\* Bounds of the model

MaxFrames == 4        \* rows the frames table may hold
MaxBatch == 3         \* longest frame_ids list given to analyze_frames
MaxLabel == 4         \* highest unknown-N suffix after which no run is started

FrameIds == 1..MaxFrames

----------------------------------------------------------------------------
\* NULL values and program constants

NullId == 0
NullConf == -1
NullStr == "null"
Junk == -1

max_retries == 3                        \* frames.py:903
min_confidence == 2000                  \* film_matcher.py:57 (0.2 in 1e-4)
face_unknown_match_threshold == 58      \* settings.py:145 (0.58 in 1e-2)
face_recognition_match_threshold == 55  \* settings.py:138 (0.55 in 1e-2)
face_min_confidence == 900              \* settings.py:110 (0.9 in 1e-3)

----------------------------------------------------------------------------
\* Arithmetic helpers

Max2(a, b) == IF a >= b THEN a ELSE b

Min2(a, b) == IF a <= b THEN a ELSE b

\* Python round(): nearest, ties to even; num >= 0, den > 0, result num/den
RoundDiv(num, den) ==
    LET q == num \div den
        r == num % den
    IN  IF 2 * r < den THEN q
        ELSE IF 2 * r > den THEN q + 1
        ELSE IF q % 2 = 0 THEN q ELSE q + 1

----------------------------------------------------------------------------
\* The world outside the database: movies, object storage, signed URLs

Movies == {1, 2}

\* movies.tmdb_id
TmdbIdOf(m) == IF m = 1 THEN 101 ELSE NullId

Paths == {"a.jpg", "b.jpg", "c.jpg", "d.jpg", "junk.jpg", "gone.jpg", "tmp"}

\* object storage: content of an object, 0 when download_file raises
StorageContent(uri) == IF uri = "s3://frames/ok" THEN 3 ELSE 0

\* content behind a pre-signed URL, 0 when the GET fails
SignedContent(url) == IF url = "http://signed/ok" THEN 4 ELSE 0

\* files present before any task ran
InitialFiles ==
    [p \in Paths |-> CASE p = "a.jpg" -> 1
                       [] p = "b.jpg" -> 2
                       [] p = "junk.jpg" -> Junk
                       [] OTHER -> 0]

----------------------------------------------------------------------------
\* Frame rows

NewFrame(movie_id, file_path, storage_uri, signed_url, captured_at) ==
    [movie_id |-> movie_id,
     file_path |-> file_path,
     storage_uri |-> storage_uri,
     signed_url |-> signed_url,
     captured_at |-> captured_at,
     status |-> "new",
     failure_reason |-> NullStr,
     embedding |-> NullId,
     embedding_model |-> NullStr,
     embedding_model_version |-> NullStr,
     predicted_movie_id |-> NullId,
     match_confidence |-> NullConf,
     predicted_timestamp |-> NullStr,
     predicted_shot_id |-> NullId]

FrameExists(fr, id) == id \in 1..Len(fr)

\* the frames table without its unique constraint
UniqueStorageUriUnchecked(fr, uri) == TRUE

\* uq_frames_storage_uri: TRUE when inserting a row with this uri is allowed
UniqueStorageUriAllows(fr, uri) ==
    uri = NullStr \/ \A i \in 1..Len(fr) : fr[i].storage_uri # uri

\* the state a stage reads and writes: the tables and the local files
DB == [frames |-> frames, scene |-> sceneAttrs, actors |-> actorDets,
       tags |-> frameTags, files |-> localFiles]

\* a stage outcome: the value returned, or the exception raised, and the
\* state that is committed when the stage's session scope exits
Returned(db, val) == [ok |-> TRUE, exc |-> NullStr, db |-> db, value |-> val]

Raised(db, exc) == [ok |-> FALSE, exc |-> exc, db |-> db, value |-> NullId]

----------------------------------------------------------------------------
\* Materialising frame content

\* download_to_path: the object's content, 0 when boto raises ClientError
download_to_path(uri) == StorageContent(uri)

\* _ensure_local_copy: ok with the files after a possible download;
\* exc "FileNotFoundError" or "ClientError"
ensure_local_copy(fl, file_path, storage_uri) ==
    IF fl[file_path] # 0
    THEN [ok |-> TRUE, exc |-> NullStr, files |-> fl]
    ELSE IF storage_uri # NullStr
    THEN IF download_to_path(storage_uri) # 0
         THEN [ok |-> TRUE, exc |-> NullStr,
               files |-> [fl EXCEPT ![file_path] = download_to_path(storage_uri)]]
         ELSE [ok |-> FALSE, exc |-> "ClientError", files |-> fl]
    ELSE [ok |-> FALSE, exc |-> "FileNotFoundError", files |-> fl]

\* _materialize_frame: content of the frame, whether a temp file was made
materialize_frame(fl, frame) ==
    LET local == ensure_local_copy(fl, frame.file_path, frame.storage_uri)
    IN  IF local.ok
        THEN [ok |-> TRUE, exc |-> NullStr, files |-> local.files,
              content |-> local.files[frame.file_path], cleanup |-> FALSE]
        ELSE IF local.exc # "FileNotFoundError"
        THEN [ok |-> FALSE, exc |-> local.exc, files |-> fl,
              content |-> 0, cleanup |-> FALSE]
        ELSE IF frame.storage_uri # NullStr
        THEN IF download_to_path(frame.storage_uri) # 0
             THEN [ok |-> TRUE, exc |-> NullStr, files |-> fl,
                   content |-> download_to_path(frame.storage_uri), cleanup |-> TRUE]
             ELSE [ok |-> FALSE, exc |-> "ClientError", files |-> fl,
                   content |-> 0, cleanup |-> FALSE]
        ELSE IF frame.signed_url # NullStr
        THEN IF SignedContent(frame.signed_url) # 0
             THEN [ok |-> TRUE, exc |-> NullStr, files |-> fl,
                   content |-> SignedContent(frame.signed_url), cleanup |-> TRUE]
             ELSE [ok |-> FALSE, exc |-> "HTTPError", files |-> fl,
                   content |-> 0, cleanup |-> FALSE]
        ELSE [ok |-> FALSE, exc |-> "FileNotFoundError", files |-> fl,
              content |-> 0, cleanup |-> FALSE]

\* _mark_failure: its own session scope; a missing frame is ignored
mark_failure(fr, id, reason) ==
    IF ~FrameExists(fr, id) THEN fr
    ELSE [fr EXCEPT ![id].failure_reason = reason, ![id].status = "failed"]

----------------------------------------------------------------------------
\* Stage functions of tasks/frames.py

\* datetime.fromisoformat inside try/except: None when it does not parse
ParseCapturedAt(s) == IF s = "2024-05-01T10:00:00" THEN s ELSE NullStr

\* import_frame: resolves the content, validates the movie, inserts the row
import_frame(db, file_path, movie_id, storage_uri, signed_url, captured_at) ==
    LET local == ensure_local_copy(db.files, file_path, storage_uri)
        resolved ==
            IF local.ok
            THEN [ok |-> TRUE, exc |-> NullStr, path |-> file_path, files |-> local.files]
            ELSE IF local.exc # "FileNotFoundError"
            THEN [ok |-> FALSE, exc |-> local.exc, path |-> file_path, files |-> db.files]
            ELSE IF storage_uri # NullStr
            THEN IF download_to_path(storage_uri) # 0
                 THEN [ok |-> TRUE, exc |-> NullStr, path |-> "tmp", files |-> db.files]
                 ELSE [ok |-> FALSE, exc |-> "ClientError", path |-> file_path, files |-> db.files]
            ELSE IF signed_url # NullStr
            THEN IF SignedContent(signed_url) # 0
                 THEN [ok |-> TRUE, exc |-> NullStr, path |-> "tmp", files |-> db.files]
                 ELSE [ok |-> FALSE, exc |-> "HTTPError", path |-> file_path, files |-> db.files]
            ELSE [ok |-> FALSE, exc |-> "FileNotFoundError", path |-> file_path, files |-> db.files]
        kept == [db EXCEPT !.files = resolved.files]
    IN  IF ~resolved.ok THEN Raised(db, resolved.exc)
        ELSE IF movie_id # NullId /\ movie_id \notin Movies THEN Raised(kept, "ValueError")
        ELSE IF ~UniqueStorageUriAllows(db.frames, storage_uri) THEN Raised(kept, "IntegrityError")
        ELSE Returned([kept EXCEPT !.frames =
                          Append(db.frames,
                                 NewFrame(movie_id, resolved.path, storage_uri, signed_url,
                                          ParseCapturedAt(captured_at)))],
                      Len(db.frames) + 1)

\* encode_image_with_clip: the CLIP embedding of an image (512 dimensions)
ClipEmbedding(content) == content

\* _compute_embedding: the deterministic fallback (128 dimensions)
FallbackEmbedding(content) == content + 10

\* dimensionality of a stored embedding
Dim(e) == IF e > 10 THEN 128 ELSE 512

\* embed_frame without its fallback: the encoder's exception leaves the stage
embed_frame_without_fallback(db, frame_id, encOk) ==
    IF ~FrameExists(db.frames, frame_id) THEN Raised(db, "ValueError")
    ELSE
    LET frame == db.frames[frame_id]
        mat == materialize_frame(db.files, frame)
        kept == [db EXCEPT !.files = mat.files]
    IN  IF ~mat.ok THEN Raised(kept, mat.exc)
        ELSE IF mat.content = Junk THEN Raised(kept, "UnidentifiedImageError")
        ELSE IF ~encOk THEN Raised(kept, "RuntimeError")
        ELSE Returned(
                [kept EXCEPT !.frames[frame_id].embedding = ClipEmbedding(mat.content),
                             !.frames[frame_id].embedding_model = "clip-ViT-B-32:openai",
                             !.frames[frame_id].embedding_model_version = "openai",
                             !.frames[frame_id].failure_reason = NullStr,
                             !.frames[frame_id].status = "embedded"],
                frame_id)

\* embed_frame; encOk = FALSE when the encoder raises and the fallback is used
embed_frame(db, frame_id, encOk) ==
    IF ~FrameExists(db.frames, frame_id) THEN Raised(db, "ValueError")
    ELSE
    LET frame == db.frames[frame_id]
        mat == materialize_frame(db.files, frame)
        kept == [db EXCEPT !.files = mat.files]
    IN  IF ~mat.ok THEN Raised(kept, mat.exc)
        ELSE IF mat.content = Junk THEN Raised(kept, "UnidentifiedImageError")
        ELSE Returned(
                [kept EXCEPT !.frames[frame_id].embedding =
                                 IF encOk THEN ClipEmbedding(mat.content)
                                 ELSE FallbackEmbedding(mat.content),
                             !.frames[frame_id].embedding_model =
                                 IF encOk THEN "clip-ViT-B-32:openai" ELSE "rgb-histogram-v1",
                             !.frames[frame_id].embedding_model_version = "openai",
                             !.frames[frame_id].failure_reason = NullStr,
                             !.frames[frame_id].status = "embedded"],
                frame_id)

\* _tokenize of the file stem and of the movie title
StemTokens(path) ==
    CASE path = "a.jpg" -> <<"a">>
      [] path = "b.jpg" -> <<"b">>
      [] path = "c.jpg" -> <<"c">>
      [] path = "d.jpg" -> <<"d">>
      [] path = "junk.jpg" -> <<"junk">>
      [] path = "gone.jpg" -> <<"gone">>
      [] OTHER -> <<"tmp">>

TitleTokens(m) == IF m = 1 THEN <<"alpha", "one">> ELSE <<"beta">>

\* _derive_candidate_tags: first three distinct tokens
derive_candidate_tags(frame) ==
    LET all == StemTokens(frame.file_path) \o TitleTokens(frame.movie_id)
    IN  {all[i] : i \in 1..Min2(3, Len(all))}

\* tag_frame
tag_frame(db, frame_id) ==
    IF ~FrameExists(db.frames, frame_id) THEN Raised(db, "ValueError")
    ELSE IF db.frames[frame_id].movie_id \notin Movies THEN Raised(db, "ValueError")
    ELSE Returned(
            [db EXCEPT !.tags[frame_id] = @ \cup derive_candidate_tags(db.frames[frame_id]),
                       !.frames[frame_id].failure_reason = NullStr,
                       !.frames[frame_id].status = "tagged"],
            frame_id)

----------------------------------------------------------------------------
\* Film matcher (services/film_matcher.py)

\* an embedding whose norm is 0 (all components zero)
ZeroEmb == 9

\* np.dot of two normalised embeddings of equal dimension, in units of 1e-5
Cos(a, b) ==
    LET x == Min2(a % 10, b % 10)
        y == Max2(a % 10, b % 10)
    IN  IF x = y THEN 100000
        ELSE IF x = 1
        THEN CASE y = 2 -> 95000
               [] y = 3 -> 90000
               [] y = 4 -> 80000
               [] y = 5 -> 90001
               [] y = 6 -> -70000
               [] y = 7 -> -60000
               [] OTHER -> 95000
        ELSE 100000 - 25000 * (y - x)

\* _normalize_vector / _load_embedding: FALSE when the result is None
HasVector(e) == e # NullId /\ e # ZeroEmb

\* FilmMatcher._compute_similarity: (cos + 1) / 2 clamped to [0, 1] and
\* rounded to 4 decimals, in units of 1e-4
compute_similarity(target, candidate) ==
    RoundDiv(Max2(0, Min2(200000, Cos(target, candidate) + 100000)), 20)

\* FilmMatcher._candidate_rows: ids of the frames that have a film and an
\* embedding, in primary-key order
candidate_rows(fr) ==
    SelectSeq([i \in 1..Len(fr) |-> i],
              LAMBDA i : fr[i].movie_id # NullId /\ fr[i].embedding # NullId)

\* the MatchCandidate list of match_movie, in row order
RECURSIVE Candidates(_, _, _)
Candidates(fr, rows, target) ==
    IF rows = <<>> THEN <<>>
    ELSE LET i == Head(rows)
             rest == Candidates(fr, Tail(rows), target)
         IN  IF ~HasVector(fr[i].embedding) THEN rest
             ELSE <<[frame_id |-> i,
                     movie_id |-> fr[i].movie_id,
                     similarity |-> compute_similarity(target, fr[i].embedding),
                     captured_at |-> fr[i].captured_at]>> \o rest

\* best_by_movie: a dict in insertion order; a later candidate replaces the
\* entry of its film only when strictly more similar
RECURSIVE BestByMovie(_, _)
BestByMovie(cands, acc) ==
    IF cands = <<>> THEN acc
    ELSE LET c == Head(cands)
             at == {k \in 1..Len(acc) : acc[k].movie_id = c.movie_id}
         IN  IF at = {} THEN BestByMovie(Tail(cands), Append(acc, c))
             ELSE LET k == CHOOSE k \in at : TRUE
                  IN  IF c.similarity > acc[k].similarity
                      THEN BestByMovie(Tail(cands), [acc EXCEPT ![k] = c])
                      ELSE BestByMovie(Tail(cands), acc)

\* Python max(values, key=similarity): the first element with the maximum
FirstMax(entries) ==
    LET k == CHOOSE k \in 1..Len(entries) :
                 /\ \A j \in 1..Len(entries) : entries[j].similarity <= entries[k].similarity
                 /\ \A j \in 1..(k - 1) : entries[j].similarity < entries[k].similarity
    IN  entries[k]

NoMatch == [found |-> FALSE, raised |-> FALSE, movie_id |-> NullId,
            confidence |-> NullConf, timestamp |-> NullStr, shot_id |-> NullId]

\* FilmMatcher.match_movie on the frames table; raised when np.dot meets a
\* candidate of another dimensionality
match_movie(fr, target) ==
    IF ~HasVector(target) THEN NoMatch
    ELSE
    LET rows == candidate_rows(fr)
        usable == SelectSeq(rows, LAMBDA i : HasVector(fr[i].embedding))
    IN  IF \E k \in 1..Len(usable) : Dim(fr[usable[k]].embedding) # Dim(target)
        THEN [NoMatch EXCEPT !.raised = TRUE]
        ELSE
        LET cands == Candidates(fr, rows, target)
        IN  IF cands = <<>> THEN NoMatch
            ELSE LET best == FirstMax(BestByMovie(cands, <<>>))
                 IN  IF best.similarity < min_confidence THEN NoMatch
                     ELSE [found |-> TRUE, raised |-> FALSE,
                           movie_id |-> best.movie_id,
                           confidence |-> best.similarity,
                           timestamp |-> best.captured_at,
                           shot_id |-> best.frame_id]

\* _match_frame_with_known_movies inside the session scope of _match_frame
match_frame(db, frame_id) ==
    IF ~FrameExists(db.frames, frame_id) THEN Raised(db, "ValueError")
    ELSE
    LET match == match_movie(db.frames, db.frames[frame_id].embedding)
    IN  IF match.raised THEN Raised(db, "ValueError")
        ELSE IF match.found
        THEN Returned([db EXCEPT !.frames[frame_id].predicted_movie_id = match.movie_id,
                                 !.frames[frame_id].match_confidence = match.confidence,
                                 !.frames[frame_id].predicted_timestamp = match.timestamp,
                                 !.frames[frame_id].predicted_shot_id = match.shot_id,
                                 !.frames[frame_id].status = "matched",
                                 !.frames[frame_id].failure_reason = NullStr],
                      match)
        ELSE Returned([db EXCEPT !.frames[frame_id].predicted_movie_id = NullId,
                                 !.frames[frame_id].match_confidence = NullConf,
                                 !.frames[frame_id].predicted_timestamp = NullStr,
                                 !.frames[frame_id].predicted_shot_id = NullId,
                                 !.frames[frame_id].status = "unmatched",
                                 !.frames[frame_id].failure_reason = NullStr],
                      match)

----------------------------------------------------------------------------
\* Scene attributes (tasks/frames.py, services/vision.py)

\* Python values handed between predict_scene_attributes and its caller
PyList(items) == [kind |-> "list", items |-> items, attribute |-> NullStr,
                  value |-> NullStr, confidence |-> NullConf]

PyNone == [kind |-> "none", items |-> <<>>, attribute |-> NullStr,
           value |-> NullStr, confidence |-> NullConf]

\* SceneAttributePrediction; confidence in units of 1e-4
SceneAttributePrediction(attribute, value, confidence) ==
    [kind |-> "prediction", items |-> <<>>, attribute |-> attribute,
     value |-> value, confidence |-> confidence]

\* classify_attributes_with_clip: the predictions of an image
ScenePredictions(content) ==
    IF content % 2 = 1
    THEN <<SceneAttributePrediction("time_of_day", "day", 3120),
           SceneAttributePrediction("lighting", "hard_light", 2810),
           SceneAttributePrediction("lighting", "side_light", 2540),
           SceneAttributePrediction("dominant_color", "#ff0000:0", 10000)>>
    ELSE <<SceneAttributePrediction("time_of_day", "night", 1870),
           SceneAttributePrediction("lighting", "silhouette", 2260),
           SceneAttributePrediction("dominant_color", "#101010:0", 6120)>>

\* predict_scene_attributes: always a pair (predictions, embedding); the
\* local classifier's exceptions are caught inside and give ([], None)
predict_scene_attributes(content, clfOk) ==
    IF clfOk THEN <<PyList(ScenePredictions(content)), PyList(<<>>)>>
    ELSE <<PyList(<<>>), PyNone>>

\* first component of a stored embedding, in units of 1e-2
EmbeddingHead(e) == IF e = NullId THEN 50 ELSE 10 * (e % 10)

\* one SceneAttribute row, confidence rounded to 3 decimals (units of 1e-3)
SceneRow(prediction) ==
    [attribute |-> prediction.attribute,
     value |-> IF prediction.confidence >= 2000 THEN prediction.value ELSE "unknown",
     confidence |-> RoundDiv(prediction.confidence, 10)]

\* _persist_scene_attributes: iterates over what it is given and reads
\* .confidence of each element; an element that is not a prediction has no
\* such attribute (AttributeError)
persist_scene_attributes(predictions) ==
    IF \E k \in 1..Len(predictions) : predictions[k].kind # "prediction"
    THEN [ok |-> FALSE, rows |-> <<>>]
    ELSE [ok |-> TRUE,
          rows |-> [k \in 1..Len(predictions) |-> SceneRow(predictions[k])]]

\* a delete that removes one matching row only
DeleteFirstSceneAttribute(rows) == IF rows = <<>> THEN <<>> ELSE Tail(rows)

\* session.query(SceneAttribute).filter(frame_id == id).delete(): what is left
\* of the frame's rows
DeleteSceneAttributes(rows) == <<>>

\* detect_scene_attributes; the session is the scoped session of db.py, so
\* the _mark_failure call made on FileNotFoundError commits in that session,
\* the pending delete included
detect_scene_attributes(db, frame_id, clfOk) ==
    IF ~FrameExists(db.frames, frame_id) THEN Raised(db, "ValueError")
    ELSE
    LET frame == db.frames[frame_id]
        mat == materialize_frame(db.files, frame)
        kept == [db EXCEPT !.files = mat.files]
        cleared == DeleteSceneAttributes(db.scene[frame_id])
        predictions == predict_scene_attributes(mat.content, clfOk)
        effective ==
            IF Len(predictions) = 0
            THEN <<SceneAttributePrediction(
                      "time_of_day",
                      IF EmbeddingHead(frame.embedding) < 45 THEN "night" ELSE "day",
                      5000)>>
            ELSE predictions
        persisted == persist_scene_attributes(effective)
    IN  IF ~mat.ok
        THEN IF mat.exc = "FileNotFoundError"
             THEN Raised([kept EXCEPT !.scene[frame_id] = cleared,
                                      !.frames = mark_failure(db.frames, frame_id, mat.exc)],
                         mat.exc)
             ELSE Raised(kept, mat.exc)
        ELSE IF mat.content = Junk THEN Raised(kept, "UnidentifiedImageError")
        ELSE IF ~persisted.ok THEN Raised(kept, "AttributeError")
        ELSE Returned([kept EXCEPT !.scene[frame_id] = cleared \o persisted.rows,
                                   !.frames[frame_id].failure_reason = NullStr,
                                   !.frames[frame_id].status = "scene_annotated"],
                      frame_id)

----------------------------------------------------------------------------
\* Face identity resolver (tasks/frames.py, services/vision.py)

\* cluster_label values: n > 0 stands for "unknown-n", NullId for NULL and
\* EmptyLabel for the empty string
EmptyLabel == -1

Dot(a, b) == a[1] * b[1] + a[2] * b[2]

Norm2(a) == Dot(a, a)

\* detect_faces on an image: faces above face_min_confidence, each with a
\* normalised embedding (integer vector of norm 5); confidence in 1e-3
Face(confidence, embedding) == [confidence |-> confidence, embedding |-> embedding]

FacesOf(content) ==
    CASE content = 1 -> <<Face(990, <<5, 0>>)>>
      [] content = 2 -> <<Face(950, <<3, 4>>)>>
      [] content = 3 -> <<Face(980, <<-3, 4>>)>>
      [] content = 4 -> <<Face(970, <<4, 3>>), Face(930, <<0, 5>>)>>
      [] content = 5 -> <<Face(960, <<4, -3>>), Face(910, <<-4, -3>>)>>
      [] content = 6 -> <<Face(990, <<0, -5>>), Face(940, <<0, -5>>)>>
      [] OTHER -> <<>>

\* movie_cast ordered by cast_order, and the cached reference embeddings
CastOf(m) == IF m = 1 THEN <<1, 2>> ELSE <<>>

CastEmbedding(c) == IF c = 1 THEN <<-4, -3>> ELSE <<-5, 0>>

\* cosine_similarity of two vectors of norm 5, in units of 1e-2
cosine_similarity(a, b) == 4 * Dot(a, b)

\* _best_match_for_face over the film's cast, in cast order
RECURSIVE BestCast(_, _, _, _)
BestCast(embedding, cast, best_id, best_score) ==
    IF cast = <<>> THEN [id |-> best_id, score |-> best_score]
    ELSE LET score == cosine_similarity(embedding, CastEmbedding(Head(cast)))
         IN  IF score > best_score
             THEN BestCast(embedding, Tail(cast), Head(cast), score)
             ELSE BestCast(embedding, Tail(cast), best_id, best_score)

\* a recognition that takes the last cast member above the threshold, not
\* the most similar one
best_match_for_face_unranked(embedding, cast, threshold) ==
    LET above == SelectSeq(cast, LAMBDA c :
                     cosine_similarity(embedding, CastEmbedding(c)) >= threshold)
    IN  IF above = <<>> THEN [id |-> NullId, score |-> 0]
        ELSE [id |-> above[Len(above)],
              score |-> cosine_similarity(embedding, CastEmbedding(above[Len(above)]))]

best_match_for_face(embedding, cast, threshold) ==
    LET best == BestCast(embedding, cast, NullId, 0)
    IN  IF best.score < threshold THEN [id |-> NullId, score |-> best.score]
        ELSE best

\* the rows _cluster_unknown_faces reads: unknown faces with an embedding and
\* a label, of frames whose movie_id is the film, in frame then row order
RECURSIVE ExistingUnknown(_, _, _, _)
ExistingUnknown(fr, ac, movie_id, i) ==
    IF i > Len(fr) THEN <<>>
    ELSE (IF fr[i].movie_id = movie_id
          THEN SelectSeq(ac[i], LAMBDA d : d.cast_member_id = NullId
                                           /\ d.cluster_label # NullId)
          ELSE <<>>) \o ExistingUnknown(fr, ac, movie_id, i + 1)

\* clusters: a dict label -> embeddings in insertion order, kept as the sum
\* of the embeddings (the centroid's direction)
RECURSIVE BuildClusters(_, _)
BuildClusters(rows, acc) ==
    IF rows = <<>> THEN acc
    ELSE LET d == Head(rows)
             at == {k \in 1..Len(acc) : acc[k].label = d.cluster_label}
         IN  IF d.embedding = <<>> THEN BuildClusters(Tail(rows), acc)
             ELSE IF at = {}
             THEN BuildClusters(Tail(rows),
                                Append(acc, [label |-> d.cluster_label, sum |-> d.embedding]))
             ELSE LET k == CHOOSE k \in at : TRUE
                  IN  BuildClusters(Tail(rows),
                                    [acc EXCEPT ![k].sum = <<@[1] + d.embedding[1],
                                                             @[2] + d.embedding[2]>>])

\* score > best_score for two cosines of one embedding e against the
\* centroids c and b, compared exactly; b = <<>> stands for best_score = 0.0
ScoreGreater(e, c, b) ==
    /\ Dot(e, c) > 0
    /\ \/ b = <<>>
       \/ Dot(e, b) <= 0
       \/ Dot(e, c) * Dot(e, c) * Norm2(b) > Dot(e, b) * Dot(e, b) * Norm2(c)

\* any score above best_score's initial 0.0 accepted as a match
ScoreAboveZero(e, c, threshold) == Dot(e, c) > 0

\* best_score >= unknown_threshold, threshold in units of 1e-2
ScoreAtLeast(e, c, threshold) ==
    /\ Dot(e, c) >= 0
    /\ 10000 * Dot(e, c) * Dot(e, c) >= threshold * threshold * Norm2(e) * Norm2(c)

\* the loop over clusters.items(): index of the best cluster, 0 when none
\* scores above 0.0
RECURSIVE BestCluster(_, _, _, _)
BestCluster(e, clusters, k, best) ==
    IF k > Len(clusters) THEN best
    ELSE IF ScoreGreater(e, clusters[k].sum,
                         IF best = 0 THEN <<>> ELSE clusters[best].sum)
    THEN BestCluster(e, clusters, k + 1, k)
    ELSE BestCluster(e, clusters, k + 1, best)

\* _next_cluster_label: highest numeric suffix plus one
next_cluster_label(clusters) ==
    LET indices == {clusters[k].label : k \in 1..Len(clusters)} \cap Nat
    IN  IF indices = {} THEN 1
        ELSE (CHOOSE n \in indices : \A m \in indices : m <= n) + 1

\* the loop of _cluster_unknown_faces over the new detections
RECURSIVE ClusterLoop(_, _, _, _)
ClusterLoop(dets, idx, clusters, threshold) ==
    IF idx > Len(dets) THEN <<>>
    ELSE
    LET d == dets[idx]
        best == BestCluster(d.embedding, clusters, 1, 0)
    IN  IF d.cast_member_id # NullId
        THEN <<[status |-> "identified", label |-> EmptyLabel]>>
             \o ClusterLoop(dets, idx + 1, clusters, threshold)
        ELSE IF d.embedding = <<>>
        THEN <<[status |-> "untracked", label |-> EmptyLabel]>>
             \o ClusterLoop(dets, idx + 1, clusters, threshold)
        ELSE IF best # 0 /\ ScoreAtLeast(d.embedding, clusters[best].sum, threshold)
        THEN <<[status |-> "tracked", label |-> clusters[best].label]>>
             \o ClusterLoop(dets, idx + 1,
                            [clusters EXCEPT ![best].sum = <<@[1] + d.embedding[1],
                                                             @[2] + d.embedding[2]>>],
                            threshold)
        ELSE <<[status |-> "new_track", label |-> next_cluster_label(clusters)]>>
             \o ClusterLoop(dets, idx + 1,
                            Append(clusters, [label |-> next_cluster_label(clusters),
                                              sum |-> d.embedding]),
                            threshold)

\* _cluster_unknown_faces: one (status, label) per detection, none at all
\* when the frame has neither a film nor a predicted film
cluster_unknown_faces(fr, ac, frame, dets, threshold) ==
    LET movie_id == IF frame.movie_id # NullId THEN frame.movie_id
                    ELSE frame.predicted_movie_id
    IN  IF movie_id = NullId THEN <<>>
        ELSE ClusterLoop(dets, 1,
                         BuildClusters(ExistingUnknown(fr, ac, movie_id, 1), <<>>),
                         threshold)

\* the ActorDetection row built for one detected face
NewDetection(frame, index, face) ==
    LET m == best_match_for_face(face.embedding, CastOf(frame.movie_id),
                                 face_recognition_match_threshold)
        matched == IF face.confidence < face_min_confidence THEN NullId ELSE m.id
        similarity == IF face.confidence < face_min_confidence THEN 0 ELSE m.score
    IN  [face_index |-> index,
         cast_member_id |-> matched,
         confidence |-> RoundDiv(Min2(100000, face.confidence * Max2(similarity, 50)), 100),
         embedding |-> face.embedding,
         cluster_label |-> NullId,
         track_status |-> NullStr]

\* _persist_actor_detections: legacy rows seeded from the first three cast
\* members when no face was detected
persist_actor_detections(frame) ==
    LET cast == CastOf(frame.movie_id)
    IN  [k \in 1..Min2(3, Len(cast)) |->
            [face_index |-> k - 1,
             cast_member_id |-> cast[k],
             confidence |-> 700 - 50 * (k - 1),
             embedding |-> <<k, 64>>,
             cluster_label |-> NullId,
             track_status |-> "seeded"]]

\* detect_actor_faces after its delete statement, which has left the rows
\* remaining of the frame in place; detOk = FALSE when detect_faces raises
detect_actor_faces_after_delete(db, frame_id, detOk, remaining) ==
    IF ~FrameExists(db.frames, frame_id) THEN Raised(db, "ValueError")
    ELSE
    LET frame == db.frames[frame_id]
        mat == materialize_frame(db.files, frame)
        kept == [db EXCEPT !.files = mat.files]
        detected == IF detOk THEN FacesOf(mat.content) ELSE <<>>
        new_records == [k \in 1..Len(detected) |-> NewDetection(frame, k - 1, detected[k])]
        clustering == cluster_unknown_faces(db.frames,
                                            [db.actors EXCEPT ![frame_id] = remaining],
                                            frame, new_records,
                                            face_unknown_match_threshold)
        final == [k \in 1..Len(new_records) |->
                     IF new_records[k].cast_member_id # NullId
                     THEN [new_records[k] EXCEPT !.track_status = "identified"]
                     ELSE IF k <= Len(clustering)
                     THEN [new_records[k] EXCEPT !.track_status = clustering[k].status,
                                                 !.cluster_label = clustering[k].label]
                     ELSE new_records[k]]
    IN  IF ~mat.ok THEN Raised(kept, mat.exc)
        ELSE IF mat.content = Junk THEN Raised(kept, "UnidentifiedImageError")
        ELSE Returned([kept EXCEPT !.actors[frame_id] =
                                       remaining \o (IF detected = <<>>
                                                     THEN persist_actor_detections(frame)
                                                     ELSE final),
                                   !.frames[frame_id].failure_reason = NullStr,
                                   !.frames[frame_id].status = "actors_detected"],
                      frame_id)

\* detect_actor_faces without its delete statement
detect_actor_faces_keeping_rows(db, frame_id, detOk) ==
    detect_actor_faces_after_delete(db, frame_id, detOk,
                                    IF FrameExists(db.frames, frame_id)
                                    THEN db.actors[frame_id] ELSE <<>>)

\* detect_actor_faces run on its own: the delete removes every row of the
\* frame
detect_actor_faces(db, frame_id, detOk) ==
    detect_actor_faces_after_delete(db, frame_id, detOk, <<>>)

----------------------------------------------------------------------------
\* State changes shared by the actions

Commit(db) ==
    /\ frames' = db.frames
    /\ sceneAttrs' = db.scene
    /\ actorDets' = db.actors
    /\ frameTags' = db.tags
    /\ localFiles' = db.files

NoProbe == [stage |-> "none", frame_id |-> NullId, ok |-> FALSE, exc |-> NullStr,
            runs |-> 0, before |-> <<>>, first |-> [scene |-> <<>>, actors |-> <<>>]]

\* the observation of a stage call: consecutive calls of one stage on one
\* frame are counted in runs; before is the frames table the call started
\* from, first the frame's rows as the first call of the series left them
Observe(stage, frame_id, r) ==
    LET again == probe.stage = stage /\ probe.frame_id = frame_id
    IN  probe' = [stage |-> stage, frame_id |-> frame_id, ok |-> r.ok, exc |-> r.exc,
                  runs |-> IF again THEN Min2(probe.runs + 1, 3) ELSE 1,
                  before |-> frames,
                  first |-> IF again THEN probe.first
                            ELSE [scene |-> r.db.scene[frame_id],
                                  actors |-> r.db.actors[frame_id]]]

EmptyTables ==
    /\ sceneAttrs = [i \in FrameIds |-> <<>>]
    /\ actorDets = [i \in FrameIds |-> <<>>]
    /\ frameTags = [i \in FrameIds |-> {}]

Request(file_path, movie_id, storage_uri, signed_url, captured_at) ==
    [file_path |-> file_path, movie_id |-> movie_id, storage_uri |-> storage_uri,
     signed_url |-> signed_url, captured_at |-> captured_at]

\* arguments with which POST /ingest enqueues the pipeline
IngestRequests ==
    {Request("a.jpg", 1, NullStr, NullStr, "2024-05-01T10:00:00"),
     Request("a.jpg", 2, "s3://frames/ok", NullStr, NullStr),
     Request("gone.jpg", NullId, "s3://frames/ok", NullStr, "yesterday"),
     Request("gone.jpg", NullId, "s3://frames/none", NullStr, NullStr),
     Request("gone.jpg", 1, NullStr, NullStr, NullStr),
     Request("gone.jpg", NullId, NullStr, "http://signed/ok", NullStr),
     Request("b.jpg", NullId, NullStr, NullStr, NullStr),
     Request("junk.jpg", NullId, NullStr, NullStr, NullStr),
     Request("b.jpg", 9, NullStr, NullStr, NullStr)}

IdleTask == [pc |-> "idle", req |-> Request("tmp", NullId, NullStr, NullStr, NullStr), retries |-> 0, frame_id |-> NullId,
             exc |-> NullStr, log |-> <<>>]

\* the early return of analyze_frames for an empty list, which has no
\* "errors" key; its status is filled in where it is returned
NoResult == [status |-> NullStr, processed |-> 0, total |-> 0, errors |-> <<>>,
             has_errors |-> FALSE]

IdleBatch == [pc |-> "idle", frame_ids |-> <<>>, processed |-> 0, errors |-> <<>>,
              progress |-> <<>>, attempted |-> <<>>, result |-> NoResult]

TaskIds == {1, 2}

\* no call of classify_attributes_with_clip has been made
IdleClip == [called |-> FALSE, time_of_day |-> <<>>, lighting |-> <<>>, proto |-> <<>>,
             predictions |-> <<>>]

\* callers of POST /vision/analyze
Callers == {1, 2}

IdleCall == [pc |-> "idle", frame_id |-> NullId, pipeline_id |-> NullStr, force |-> FALSE,
             existing |-> FALSE, content |-> 0, cached |-> FALSE, exc |-> NullStr]

\* an image of height x width pixels: one grey level, or columns that
\* alternate between twice the level and black
Image(height, width, kind, level) ==
    [height |-> height, width |-> width, kind |-> kind, level |-> level]

\* nothing has been embedded yet
IdleEngine == [image |-> Image(1, 1, "solid", 0), path |-> "none",
               embedding |-> [raw |-> <<>>, scale2 |-> 1]]

\* the two concurrent executions of a stage
Executions == {1, 2}

\* a session that has not begun: targets are the ids of the rows its delete
\* statement found, rows the rows it is going to insert
IdleSession == [pc |-> "idle", targets |-> {}, rows |-> <<>>, exc |-> NullStr]

\* ids are the primary keys of the rows of actorDets[frame], in order
NoSessions == [frame |-> NullId, ids |-> <<>>, next |-> 1,
               tx |-> [e \in Executions |-> IdleSession]]

ServicesIdle ==
    /\ clip = IdleClip
    /\ frameEmbeddings = <<>>
    /\ calls = [c \in Callers |-> IdleCall]
    /\ engine = IdleEngine
    /\ sessions = NoSessions

\* the database, the files and the tasks before anything has run
PipelineIdle ==
    /\ frames = <<>>
    /\ EmptyTables
    /\ localFiles = InitialFiles
    /\ tasks = [t \in TaskIds |-> IdleTask]
    /\ enrichQ = {}
    /\ batch = IdleBatch
    /\ probe = NoProbe

pipelineVars == <<frames, sceneAttrs, actorDets, frameTags, localFiles, tasks, enrichQ, batch,
                  probe>>

----------------------------------------------------------------------------
\* Stage functions invoked on their own (each is a Celery task of its own)

EmbedFrame(f) ==
    \E encOk \in BOOLEAN :
        LET r == embed_frame(DB, f, encOk)
        IN  /\ Commit(r.db)
            /\ Observe("embed", f, r)
            /\ UNCHANGED <<tasks, enrichQ, batch, serviceVars>>

TagFrame(f) ==
    LET r == tag_frame(DB, f)
    IN  /\ Commit(r.db)
        /\ Observe("tag", f, r)
        /\ UNCHANGED <<tasks, enrichQ, batch, serviceVars>>

DetectSceneAttributes(f) ==
    \E clfOk \in BOOLEAN :
        LET r == detect_scene_attributes(DB, f, clfOk)
        IN  /\ Commit(r.db)
            /\ Observe("scene", f, r)
            /\ UNCHANGED <<tasks, enrichQ, batch, serviceVars>>

\* a run that also clears the rows of the other frames of the film
DetectActorFacesClearingFilm(f) ==
    \E detOk \in BOOLEAN :
        LET r == detect_actor_faces(DB, f, detOk)
            others == {j \in 1..Len(frames) : /\ j # f
                                              /\ FrameExists(frames, f)
                                              /\ frames[j].movie_id = frames[f].movie_id}
        IN  /\ Commit([r.db EXCEPT !.actors = [j \in DOMAIN r.db.actors |->
                                                  IF j \in others /\ r.ok THEN <<>>
                                                  ELSE r.db.actors[j]]])
            /\ Observe("actors", f, r)
            /\ UNCHANGED <<tasks, enrichQ, batch, serviceVars>>

DetectActorFaces(f) ==
    \E detOk \in BOOLEAN :
        LET r == detect_actor_faces(DB, f, detOk)
        IN  /\ Commit(r.db)
            /\ Observe("actors", f, r)
            /\ UNCHANGED <<tasks, enrichQ, batch, serviceVars>>

MatchFrame(f) ==
    LET r == match_frame(DB, f)
    IN  /\ Commit(r.db)
        /\ Observe("match", f, r)
        /\ UNCHANGED <<tasks, enrichQ, batch, serviceVars>>

----------------------------------------------------------------------------
\* ingest_and_tag_frame (frames.pipeline), one action per committed step

\* autoretry_for=(Exception,), max_retries: the task is re-queued with the
\* same arguments until the retries are used up, then it fails for good
TaskRaise(task, exc) ==
    IF task.retries < max_retries
    THEN [task EXCEPT !.pc = "queued", !.retries = @ + 1, !.exc = exc]
    ELSE [task EXCEPT !.pc = "failure", !.exc = exc]

Enqueue(t, req) ==
    /\ tasks[t].pc = "idle"
    /\ tasks' = [tasks EXCEPT ![t] = [IdleTask EXCEPT !.pc = "queued", !.req = req]]
    /\ UNCHANGED <<frames, sceneAttrs, actorDets, frameTags, localFiles, enrichQ, batch, probe, serviceVars>>

\* the import_frame call that opens every attempt, outside the try block
RunImport(t) ==
    /\ tasks[t].pc = "queued"
    /\ Len(frames) < MaxFrames
    /\ LET q == tasks[t].req
           r == import_frame(DB, q.file_path, q.movie_id, q.storage_uri,
                             q.signed_url, q.captured_at)
       IN  /\ Commit(r.db)
           /\ tasks' = [tasks EXCEPT ![t] =
                           IF r.ok
                           THEN [@ EXCEPT !.pc = "embed", !.frame_id = r.value,
                                          !.log = <<"new">>]
                           ELSE TaskRaise([@ EXCEPT !.frame_id = NullId, !.log = <<>>],
                                          r.exc)]
    /\ UNCHANGED <<enrichQ, batch, probe, serviceVars>>

\* _maybe_enqueue_enrichment: the calls it adds to the queue
maybe_enqueue_enrichment(frame_id, predicted_movie_id, predicted_timestamp) ==
    IF predicted_movie_id = NullId THEN {}
    ELSE IF predicted_movie_id \notin Movies THEN {}
    ELSE IF TmdbIdOf(predicted_movie_id) = NullId THEN {}
    ELSE {[frame_id |-> frame_id, tmdb_id |-> TmdbIdOf(predicted_movie_id),
           shot_timestamp |-> predicted_timestamp]}

\* the stage the try block calls at a position, its successor position and
\* the statuses the stage writes
StageCall(db, pc, frame_id, flag) ==
    CASE pc = "embed" -> embed_frame(db, frame_id, flag)
      [] pc = "match" -> match_frame(db, frame_id)
      [] pc = "tag" -> tag_frame(db, frame_id)
      [] pc = "scene" -> detect_scene_attributes(db, frame_id, flag)
      [] OTHER -> detect_actor_faces(db, frame_id, flag)

NextPc(pc, movie_id) ==
    CASE pc = "embed" -> IF movie_id = NullId THEN "match" ELSE "tag"
      [] pc = "match" -> "final"
      [] pc = "tag" -> "scene"
      [] pc = "scene" -> "actors"
      [] OTHER -> "final"

\* one stage call of the try block; on an exception the except clause marks
\* the frame failed and re-raises into the retry machinery
RunStage(t) ==
    /\ tasks[t].pc \in {"embed", "match", "tag", "scene", "actors"}
    /\ \E flag \in BOOLEAN :
        LET task == tasks[t]
            r == StageCall(DB, task.pc, task.frame_id, flag)
            after == r.db.frames[task.frame_id]
        IN  IF r.ok
            THEN /\ Commit(r.db)
                 /\ tasks' = [tasks EXCEPT ![t].pc = NextPc(task.pc, task.req.movie_id),
                                           ![t].log = @ \o (IF task.pc = "embed"
                                                            THEN <<"embedding", after.status>>
                                                            ELSE <<after.status>>)]
                 /\ enrichQ' = enrichQ \cup
                        (CASE task.pc = "match" ->
                                  maybe_enqueue_enrichment(task.frame_id,
                                                           after.predicted_movie_id,
                                                           after.predicted_timestamp)
                           [] task.pc = "actors" ->
                                  maybe_enqueue_enrichment(task.frame_id,
                                                           task.req.movie_id, NullStr)
                           [] OTHER -> {})
            ELSE /\ Commit([r.db EXCEPT !.frames = mark_failure(@, task.frame_id, r.exc)])
                 /\ tasks' = [tasks EXCEPT ![t] = TaskRaise([@ EXCEPT !.log = @ \o <<"failed">>],
                                                            r.exc)]
                 /\ UNCHANGED enrichQ
    /\ UNCHANGED <<batch, probe, serviceVars>>

\* the session scope that closes a successful run
RunFinal(t) ==
    /\ tasks[t].pc = "final"
    /\ LET task == tasks[t]
           known == FrameExists(frames, task.frame_id) /\ task.req.movie_id # NullId
       IN  /\ frames' = IF known
                        THEN [frames EXCEPT ![task.frame_id].status = "tagged",
                                            ![task.frame_id].failure_reason = NullStr]
                        ELSE frames
           /\ tasks' = [tasks EXCEPT ![t].pc = "success",
                                     ![t].log = IF known THEN @ \o <<"tagged">> ELSE @]
    /\ UNCHANGED <<sceneAttrs, actorDets, frameTags, localFiles, enrichQ, batch, probe, serviceVars>>

\* the movie TMDBIngestor.ingest_movie upserts for a tmdb id
MovieByTmdb(tmdb_id) == CHOOSE m \in Movies : TmdbIdOf(m) = tmdb_id

\* enrich_frame_metadata (frames.enrich_metadata); fetched = FALSE when the
\* metadata provider raises
EnrichFrameMetadata(e) ==
    /\ e \in enrichQ
    /\ enrichQ' = enrichQ \ {e}
    /\ \E fetched \in BOOLEAN :
        frames' = IF fetched /\ FrameExists(frames, e.frame_id)
                  THEN [frames EXCEPT
                           ![e.frame_id].movie_id =
                               IF @ = NullId THEN MovieByTmdb(e.tmdb_id) ELSE @,
                           ![e.frame_id].predicted_movie_id =
                               IF @ = NullId THEN MovieByTmdb(e.tmdb_id) ELSE @,
                           ![e.frame_id].failure_reason = NullStr,
                           ![e.frame_id].status = "enriched"]
                  ELSE frames
    /\ UNCHANGED <<sceneAttrs, actorDets, frameTags, localFiles, tasks, batch, probe, serviceVars>>

InitPipeline ==
    /\ frames = <<>>
    /\ EmptyTables
    /\ localFiles = InitialFiles
    /\ tasks = [t \in TaskIds |-> IdleTask]
    /\ enrichQ = {}
    /\ batch = IdleBatch
    /\ probe = NoProbe
    /\ ServicesIdle

Next ==
    \/ \E t \in TaskIds, req \in IngestRequests : Enqueue(t, req)
    \/ \E t \in TaskIds : RunImport(t)
    \/ \E t \in TaskIds : RunStage(t)
    \/ \E t \in TaskIds : RunFinal(t)
    \/ \E e \in enrichQ : EnrichFrameMetadata(e)

Spec == InitPipeline /\ [][Next]_vars

----------------------------------------------------------------------------
\* Properties of the ingest pipeline (Spec)

Finished(t) == tasks[t].pc \in {"success", "failure"}

\* rows of the frames table that an ingest request can have created
FramesOf(q) ==
    {i \in 1..Len(frames) : /\ frames[i].storage_uri = q.storage_uri
                            /\ frames[i].signed_url = q.signed_url
                            /\ frames[i].file_path \in {q.file_path, "tmp"}}

MarkedFailed(i) == frames[i].status = "failed" /\ frames[i].failure_reason # NullStr

\* C1: once the pipeline has finished (retries included) for a file_path that
\* does not exist locally and a storage_uri that cannot be downloaded, with no
\* signed_url, the ingested frame has status failed and a failure_reason, and
\* has no SceneAttribute and no ActorDetection row.
C1_UnresolvableIngestRecordsFailure ==
    \A t \in TaskIds :
        (/\ Finished(t)
         /\ localFiles[tasks[t].req.file_path] = 0
         /\ tasks[t].req.storage_uri # NullStr
         /\ StorageContent(tasks[t].req.storage_uri) = 0
         /\ tasks[t].req.signed_url = NullStr)
        => \E i \in FramesOf(tasks[t].req) :
               /\ MarkedFailed(i)
               /\ sceneAttrs[i] = <<>>
               /\ actorDets[i] = <<>>

StatusChain == <<"new", "embedding", "embedded", "tagged", "scene_annotated",
                 "actors_detected", "analyzed">>

\* position of a status in the chain, 0 when it is not one of its elements
ChainIndex(status) ==
    IF \E k \in 1..Len(StatusChain) : StatusChain[k] = status
    THEN CHOOSE k \in 1..Len(StatusChain) : StatusChain[k] = status
    ELSE 0

C4_TerminalFailureRecorded ==
    \A t \in TaskIds :
        /\ tasks[t].retries <= max_retries
        /\ tasks[t].pc = "failure"
               => \E i \in FramesOf(tasks[t].req) : MarkedFailed(i)

\* C5: no two Frame rows have the same non-null storage_uri.
C5_StorageUriUnique ==
    \A i, j \in 1..Len(frames) :
        (i # j /\ frames[i].storage_uri # NullStr)
            => frames[i].storage_uri # frames[j].storage_uri

\* a retry of a pipeline whose later stage failed after the import had
\* created the frame was turned away by the constraint
C5_Witness ==
    \E t \in TaskIds :
        /\ tasks[t].exc = "IntegrityError"
        /\ tasks[t].retries >= 1
        /\ \E i \in FramesOf(tasks[t].req) : MarkedFailed(i)

----------------------------------------------------------------------------
\* detect_scene_attributes run on its own (frames.scene_attributes), next to
\* the moderator's replacement of a frame's scene attributes (SpecScene)

\* frames as earlier imports left them: a readable local image, one whose
\* local file is gone, one that must be downloaded and cannot be, an
\* unreadable image
SceneSeedFrames ==
    {NewFrame(1, "a.jpg", NullStr, NullStr, NullStr),
     NewFrame(NullId, "gone.jpg", NullStr, NullStr, NullStr),
     NewFrame(2, "gone.jpg", "s3://frames/none", NullStr, NullStr),
     NewFrame(NullId, "junk.jpg", NullStr, NullStr, NullStr)}

\* bodies of POST /frames/{id}/scene-attributes; confidence in units of 1e-3
ScenePayloads ==
    {<<[attribute |-> "time_of_day", value |-> "dusk", confidence |-> 900]>>,
     <<[attribute |-> "time_of_day", value |-> "day", confidence |-> 312],
       [attribute |-> "lighting", value |-> "soft_light", confidence |-> 1000]>>}

\* replace_scene_attributes: the frame's rows become the payload's
ReplaceSceneAttributes(f, payload) ==
    /\ FrameExists(frames, f)
    /\ sceneAttrs' = [sceneAttrs EXCEPT ![f] = payload]
    /\ frames' = [frames EXCEPT ![f].status = "analyzed"]
    /\ probe' = NoProbe
    /\ UNCHANGED <<actorDets, frameTags, localFiles, tasks, enrichQ, batch, serviceVars>>

InitScene ==
    /\ frames \in {<<a, b, c>> : a \in SceneSeedFrames, b \in SceneSeedFrames,
                                 c \in SceneSeedFrames}
    /\ \A i, j \in 1..Len(frames) : UniqueStorageUriAllows(SubSeq(frames, 1, i - 1),
                                                          frames[i].storage_uri)
    /\ EmptyTables
    /\ localFiles = InitialFiles
    /\ tasks = [t \in TaskIds |-> IdleTask]
    /\ enrichQ = {}
    /\ batch = IdleBatch
    /\ probe = NoProbe
    /\ ServicesIdle

NextScene ==
    \/ \E f \in FrameIds : DetectSceneAttributes(f)
    \/ \E f \in FrameIds, payload \in ScenePayloads : ReplaceSceneAttributes(f, payload)

SpecScene == InitScene /\ [][NextScene]_vars

\* no element of a sequence of rows occurs twice in it
NoDuplicateRows(rows) ==
    \A i, j \in 1..Len(rows) : rows[i] = rows[j] => i = j

----------------------------------------------------------------------------
\* analyze_frames (vision.analyze_frames), one action per loop iteration
\* (SpecBatch)

\* the dict analyze_frames returns; has_errors tells whether it has the key
\* "errors" at all
analyze_result_successes(total, processed, errors) ==
    [status |-> IF errors = <<>> THEN "done" ELSE "done_with_errors",
     processed |-> processed - Len(errors), total |-> total, errors |-> errors,
     has_errors |-> TRUE]

analyze_result(total, processed, errors) ==
    [status |-> IF errors = <<>> THEN "done" ELSE "done_with_errors",
     processed |-> processed, total |-> total, errors |-> errors,
     has_errors |-> TRUE]

\* where the task stands after an iteration in which the analysis of a frame
\* raised or not: an exception that leaves the loop
LoopAfterUncaught(raised, processed, total) ==
    IF raised THEN "raised" ELSE IF processed = total THEN "done" ELSE "loop"

\* the except clause catches every Exception, the loop goes on to the next id
LoopAfter(raised, processed, total) ==
    IF processed = total THEN "done" ELSE "loop"

\* the lists of frame ids a batch is started with
BatchLists == UNION {[1..n -> FrameIds] : n \in 0..MaxBatch}

StartBatch(ids) ==
    /\ batch.pc \in {"idle", "done"}
    /\ batch' = IF Len(ids) = 0
                THEN [IdleBatch EXCEPT !.pc = "done",
                                       !.result = [NoResult EXCEPT !.status = "done"]]
                ELSE [IdleBatch EXCEPT !.pc = "loop", !.frame_ids = ids]
    /\ UNCHANGED <<frames, sceneAttrs, actorDets, frameTags, localFiles, tasks, enrichQ, probe, serviceVars>>

\* one iteration: detect_scene_attributes then detect_actor_faces, the except
\* and the finally clause, and after the last id the return
BatchStep ==
    /\ batch.pc = "loop"
    /\ \E clfOk \in BOOLEAN, detOk \in BOOLEAN :
        LET frame_id == batch.frame_ids[batch.processed + 1]
            total == Len(batch.frame_ids)
            scene == detect_scene_attributes(DB, frame_id, clfOk)
            r == IF scene.ok THEN detect_actor_faces(scene.db, frame_id, detOk) ELSE scene
            errors == IF r.ok THEN batch.errors
                      ELSE Append(batch.errors, [frame_id |-> frame_id, error |-> r.exc])
            processed == batch.processed + 1
            pc == LoopAfter(~r.ok, processed, total)
        IN  /\ Commit(IF r.ok THEN r.db
                      ELSE [r.db EXCEPT !.frames = mark_failure(@, frame_id,
                                                                "Vision analysis failed")])
            /\ batch' = [batch EXCEPT
                            !.pc = pc,
                            !.processed = processed,
                            !.errors = errors,
                            !.progress = Append(@, [processed |-> processed, total |-> total]),
                            !.attempted = Append(@, [frame_id |-> frame_id, ok |-> r.ok]),
                            !.result = IF pc = "done"
                                       THEN analyze_result(total, processed, errors)
                                       ELSE @]
    /\ UNCHANGED <<tasks, enrichQ, probe, serviceVars>>

InitBatch ==
    /\ frames \in {<<NewFrame(1, "a.jpg", NullStr, NullStr, NullStr),
                     NewFrame(NullId, "gone.jpg", NullStr, NullStr, NullStr),
                     NewFrame(2, "junk.jpg", NullStr, NullStr, NullStr)>>,
                   <<NewFrame(NullId, "gone.jpg", "s3://frames/none", NullStr, NullStr),
                     NewFrame(1, "b.jpg", NullStr, NullStr, NullStr)>>}
    /\ EmptyTables
    /\ localFiles = InitialFiles
    /\ tasks = [t \in TaskIds |-> IdleTask]
    /\ enrichQ = {}
    /\ batch = IdleBatch
    /\ probe = NoProbe
    /\ ServicesIdle

NextBatch ==
    \/ \E ids \in BatchLists : StartBatch(ids)
    \/ BatchStep

SpecBatch == InitBatch /\ [][NextBatch]_vars

\* the attempt at position k is the last one made so far on its frame id
LastAttempt(k) ==
    \A j \in (k + 1)..Len(batch.attempted) :
        batch.attempted[j].frame_id # batch.attempted[k].frame_id

\* C6: analyze_frames attempts the ids of its list in list order, each exactly
\* once whatever the earlier ones raised; an existing frame whose analysis
\* raised is left with status failed and a failure_reason; the task never ends
\* by an exception and has gone through the whole list when it returns.
C6_BatchIsolatesFailures ==
    /\ batch.pc # "raised"
    /\ Len(batch.attempted) = batch.processed
    /\ \A k \in 1..Len(batch.attempted) :
           /\ batch.attempted[k].frame_id = batch.frame_ids[k]
           /\ (/\ ~batch.attempted[k].ok
               /\ LastAttempt(k)
               /\ FrameExists(frames, batch.attempted[k].frame_id))
                  => MarkedFailed(batch.attempted[k].frame_id)
    /\ batch.pc = "done" => batch.processed = Len(batch.frame_ids)

\* a batch of at least two ids has returned although the analysis of its
\* first frame raised, and a later frame of the list carries the failure
C6_Witness ==
    /\ batch.pc = "done"
    /\ Len(batch.frame_ids) >= 2
    /\ ~batch.attempted[1].ok
    /\ Len(batch.attempted) = Len(batch.frame_ids)
    /\ \E k \in 2..Len(batch.attempted) :
           /\ FrameExists(frames, batch.attempted[k].frame_id)
           /\ frames[batch.attempted[k].frame_id].failure_reason = "Vision analysis failed"

\* the number of frames of the batch analysed without error
SuccessCount == Cardinality({k \in 1..Len(batch.attempted) : batch.attempted[k].ok})

\* the frame ids whose analysis raised, in the order of the list
RaisedIds(k) ==
    SelectSeq([j \in 1..k |-> batch.attempted[j]], LAMBDA a : ~a.ok)

\* C7 (as stated): the result carries the collected errors, one entry per
\* frame whose analysis raised, and as processed the number of frames analysed
\* without error; status is done exactly when no frame failed and
\* done_with_errors otherwise; the progress published counts 1, 2, ... total.
C7_ResultCarriesSuccessCount ==
    /\ batch.progress = [k \in 1..batch.processed |->
                            [processed |-> k, total |-> Len(batch.frame_ids)]]
    /\ batch.pc = "done"
        => /\ Len(batch.result.errors) = Len(batch.attempted) - SuccessCount
           /\ batch.result.processed = SuccessCount
           /\ batch.result.status = IF batch.result.errors = <<>>
                                    THEN "done" ELSE "done_with_errors"

\* C7 (amended): the result of a non-empty batch carries the collected errors,
\* one entry per frame whose analysis raised, in list order, and as processed
\* the number of frames attempted, which is total; the result of an empty
\* batch has no errors entry; status is done exactly when no frame failed and
\* done_with_errors otherwise; the progress published counts 1, 2, ... total.
C7_ResultCarriesAttemptCount ==
    /\ batch.progress = [k \in 1..batch.processed |->
                            [processed |-> k, total |-> Len(batch.frame_ids)]]
    /\ batch.pc = "done"
        => /\ batch.result.total = Len(batch.frame_ids)
           /\ batch.result.processed = batch.result.total
           /\ batch.result.has_errors <=> batch.result.total > 0
           /\ Len(batch.result.errors) = Len(batch.attempted) - SuccessCount
           /\ \A k \in 1..Len(batch.result.errors) :
                  batch.result.errors[k].frame_id = RaisedIds(Len(batch.attempted))[k].frame_id
           /\ batch.result.status = IF SuccessCount = Len(batch.attempted)
                                    THEN "done" ELSE "done_with_errors"

\* a batch of three ids has returned done_with_errors: three errors, and
\* processed = total = 3
C7_Witness ==
    /\ batch.pc = "done"
    /\ batch.result.status = "done_with_errors"
    /\ batch.result.total = 3
    /\ batch.result.processed = 3
    /\ Len(batch.result.errors) = 3
    /\ Len(batch.progress) = 3

----------------------------------------------------------------------------
\* The embed and match stages run on their own over a corpus of film frames
\* (SpecMatch)

\* image files whose CLIP embeddings have cosine 0.95, 0.90 and 0.80 (or
\* -0.70) with the embedding of a.jpg
MatchFiles(d) ==
    [p \in Paths |-> CASE p = "a.jpg" -> 1
                       [] p = "b.jpg" -> 2
                       [] p = "c.jpg" -> 3
                       [] p = "d.jpg" -> d
                       [] p = "junk.jpg" -> Junk
                       [] OTHER -> 0]

\* frame 1 has no film; frames 2 to 4 are frames of the films, not embedded
\* yet; the match stage is run where the pipeline runs it, on a frame without
\* a film
InitMatch ==
    /\ \E m4 \in Movies, p4 \in {"b.jpg", "c.jpg"} :
          frames = <<NewFrame(NullId, "a.jpg", NullStr, NullStr, NullStr),
                     NewFrame(1, "d.jpg", NullStr, NullStr, "2024-05-01T10:00:00"),
                     NewFrame(2, "b.jpg", NullStr, NullStr, NullStr),
                     NewFrame(m4, p4, NullStr, NullStr, NullStr)>>
    /\ EmptyTables
    /\ \E d \in {4, 6} : localFiles = MatchFiles(d)
    /\ tasks = [t \in TaskIds |-> IdleTask]
    /\ enrichQ = {}
    /\ batch = IdleBatch
    /\ probe = NoProbe
    /\ ServicesIdle

NextMatch ==
    \/ \E f \in FrameIds : EmbedFrame(f)
    \/ \E f \in FrameIds : /\ FrameExists(frames, f)
                            /\ frames[f].movie_id = NullId
                            /\ MatchFrame(f)

SpecMatch == InitMatch /\ [][NextMatch]_vars

\* the corpus without the embedding of frame i
WithoutEmbedding(fr, i) == [fr EXCEPT ![i].embedding = NullId]

\* frame i is a candidate for the target embedding e
IsCandidate(fr, i, e) ==
    /\ fr[i].movie_id # NullId
    /\ HasVector(fr[i].embedding)
    /\ Dim(fr[i].embedding) = Dim(e)

\* frame i is a candidate of its film that is less similar to e than another
\* candidate of the same film
LowerCandidate(fr, i, e) ==
    /\ IsCandidate(fr, i, e)
    /\ \E j \in 1..Len(fr) :
           /\ j # i
           /\ IsCandidate(fr, j, e)
           /\ fr[j].movie_id = fr[i].movie_id
           /\ compute_similarity(e, fr[j].embedding) > compute_similarity(e, fr[i].embedding)

\* the corpus of the spec's example: film 1 with a frame of cosine 0.9, film 2
\* with frames of cosine 0.95 and 0.80 to the target embedding 1
ExampleCorpus ==
    <<[NewFrame(1, "c.jpg", NullStr, NullStr, NullStr) EXCEPT !.embedding = 3],
      [NewFrame(2, "b.jpg", NullStr, NullStr, NullStr) EXCEPT !.embedding = 2],
      [NewFrame(2, "d.jpg", NullStr, NullStr, NullStr) EXCEPT !.embedding = 4]>>

\* C8: match_movie returns at most one match, the film whose best frame has
\* the highest similarity over all films, with that similarity as confidence;
\* taking a lower-similarity embedded frame of any film out of the corpus (or
\* adding it) changes neither the film nor the confidence returned; for film 1
\* at 0.9 and film 2 at 0.95 and 0.80 it returns film 2 with confidence 0.975.
C8_ConsolidatesByFilm ==
    /\ match_movie(ExampleCorpus, 1).movie_id = 2
    /\ match_movie(ExampleCorpus, 1).confidence = 9750
    /\ \A t \in 1..Len(frames) :
           (frames[t].movie_id = NullId /\ HasVector(frames[t].embedding))
           => LET e == frames[t].embedding
                  with == match_movie(frames, e)
              IN  /\ with.found =>
                         /\ \A j \in 1..Len(frames) :
                                IsCandidate(frames, j, e)
                                    => compute_similarity(e, frames[j].embedding) <= with.confidence
                         /\ \E j \in 1..Len(frames) :
                                /\ IsCandidate(frames, j, e)
                                /\ frames[j].movie_id = with.movie_id
                                /\ compute_similarity(e, frames[j].embedding) = with.confidence
                  /\ \A i \in 1..Len(frames) :
                         LowerCandidate(frames, i, e)
                             => LET without == match_movie(WithoutEmbedding(frames, i), e)
                                IN  /\ with.raised = without.raised
                                    /\ with.found = without.found
                                    /\ with.movie_id = without.movie_id
                                    /\ with.confidence = without.confidence

\* C9: after the match stage has run on a frame, the frame is either matched,
\* with predicted film, a confidence of at least min_confidence and the shot id
\* and timestamp of a frame of that film, or unmatched with predicted film,
\* confidence, timestamp and shot id all null; its movie_id is what it was
\* before the run and its failure_reason is null.
C9_MatchOutcomes ==
    (probe.stage = "match" /\ FrameExists(frames, probe.frame_id))
        => LET frame == frames[probe.frame_id]
               matched ==
                   /\ frame.status = "matched"
                   /\ frame.predicted_movie_id \in Movies
                   /\ frame.match_confidence >= min_confidence
                   /\ FrameExists(frames, frame.predicted_shot_id)
                   /\ frames[frame.predicted_shot_id].movie_id = frame.predicted_movie_id
                   /\ frames[frame.predicted_shot_id].captured_at = frame.predicted_timestamp
               unmatched ==
                   /\ frame.status = "unmatched"
                   /\ frame.predicted_movie_id = NullId
                   /\ frame.match_confidence = NullConf
                   /\ frame.predicted_timestamp = NullStr
                   /\ frame.predicted_shot_id = NullId
           IN  /\ matched \/ unmatched
               /\ frame.movie_id = probe.before[probe.frame_id].movie_id
               /\ frame.failure_reason = NullStr

----------------------------------------------------------------------------
\* detect_actor_faces run on its own (frames.actor_detections) over frames of
\* two films (SpecFaces)

\* images with one or two detectable faces
FaceFiles(b) ==
    [p \in Paths |-> CASE p = "a.jpg" -> 1
                       [] p = "b.jpg" -> b
                       [] p = "c.jpg" -> 4
                       [] p = "d.jpg" -> 5
                       [] p = "junk.jpg" -> Junk
                       [] OTHER -> 0]

\* the numeric suffixes of the unknown-N labels in the table
LabelsInUse ==
    (UNION {{actorDets[j][r].cluster_label : r \in 1..Len(actorDets[j])} :
            j \in 1..Len(frames)}) \cap Nat

InitFaces ==
    /\ \E m3 \in Movies, m4 \in {NullId, 1} :
          frames = <<NewFrame(2, "a.jpg", NullStr, NullStr, NullStr),
                     NewFrame(2, "b.jpg", NullStr, NullStr, NullStr),
                     NewFrame(m3, "c.jpg", NullStr, NullStr, NullStr),
                     NewFrame(m4, "d.jpg", NullStr, NullStr, NullStr)>>
    /\ EmptyTables
    /\ \E b \in {2, 3, 6} : localFiles = FaceFiles(b)
    /\ tasks = [t \in TaskIds |-> IdleTask]
    /\ enrichQ = {}
    /\ batch = IdleBatch
    /\ probe = NoProbe
    /\ ServicesIdle

NextFaces ==
    \E f \in FrameIds : /\ \A n \in LabelsInUse : n < MaxLabel
                        /\ DetectActorFaces(f)

SpecFaces == InitFaces /\ [][NextFaces]_vars

----------------------------------------------------------------------------
\* Properties of the face clustering (SpecFaces)

\* the film whose tracks a frame's faces are clustered with
FilmOfFrame(f) ==
    IF frames[f].movie_id # NullId THEN frames[f].movie_id
    ELSE frames[f].predicted_movie_id

\* the faces that make up the unknown tracks of the film of frame f when the
\* face at row k of f is clustered: unknown faces with a label on the other
\* frames of the film, and the faces clustered before it in the same run
TrackFaces(f, k) ==
    {p \in UNION {{<<j, r>> : r \in 1..Len(actorDets[j])} : j \in 1..Len(frames)} :
        LET j == p[1]
            r == p[2]
        IN
        /\ actorDets[j][r].cast_member_id = NullId
        /\ actorDets[j][r].cluster_label \in Nat \ {NullId}
        /\ \/ j # f /\ frames[j].movie_id = FilmOfFrame(f)
           \/ j = f /\ r < k}

TrackLabels(f, k) == {actorDets[p[1]][p[2]].cluster_label : p \in TrackFaces(f, k)}

RECURSIVE SumOfFaces(_)
SumOfFaces(ps) ==
    IF ps = {} THEN <<0, 0>>
    ELSE LET p == CHOOSE q \in ps : TRUE
             e == actorDets[p[1]][p[2]].embedding
             rest == SumOfFaces(ps \ {p})
         IN  <<e[1] + rest[1], e[2] + rest[2]>>

\* the centroid of a track, up to its length
Centroid(f, k, label) ==
    SumOfFaces({p \in TrackFaces(f, k) : actorDets[p[1]][p[2]].cluster_label = label})

\* 100 * cos(e, c) >= pct, and cos(e, c) >= cos(e, b)
CosineAtLeast(e, c, pct) ==
    /\ Dot(e, c) >= 0
    /\ 10000 * Dot(e, c) * Dot(e, c) >= pct * pct * Dot(e, e) * Dot(c, c)

CosineNotBelow(e, c, b) ==
    \/ Dot(e, b) <= 0 /\ Dot(e, c) >= 0
    \/ /\ Dot(e, c) > 0
       /\ Dot(e, c) * Dot(e, c) * Dot(b, b) >= Dot(e, b) * Dot(e, b) * Dot(c, c)

----------------------------------------------------------------------------
\* Zero-shot attribute classifier (services/vision.py,
\* services/vision_pipelines/clip_vitb32.py, openclip_vitl14.py).
\* Similarities and scores are in units of 1e-3.

\* SCENE_ATTRIBUTE_PROMPTS["lighting"] and ["time_of_day"], in dict order
LightingLabels == <<"hard_light", "soft_light", "top_light", "silhouette",
                    "high_contrast", "low_contrast", "side_light", "front_light">>

TimeOfDayLabels == <<"day", "night">>

\* a label that has no prototype in _get_attribute_prototypes' map
NoPrototype == -100000

\* the score of a label after the prototype integration loop
FinalScore(clip_score, proto_sim) ==
    IF proto_sim = NoPrototype THEN clip_score
    ELSE (6 * clip_score + 4 * proto_sim) \div 10

FinalScores(similarity, proto) ==
    [i \in 1..Len(similarity) |-> FinalScore(similarity[i], proto[i])]

\* similarity.max()
BestScore(scores) ==
    CHOOSE b \in {scores[i] : i \in 1..Len(scores)} :
        \A i \in 1..Len(scores) : scores[i] <= b

\* similarity.argsort(descending=True) over the indices in rest; the order of
\* equal scores is not fixed by torch: lowFirst picks one of two orders
RECURSIVE ArgsortDescending(_, _, _)
ArgsortDescending(scores, rest, lowFirst) ==
    IF rest = {} THEN <<>>
    ELSE LET top == CHOOSE i \in rest :
                        \A j \in rest :
                            \/ scores[i] > scores[j]
                            \/ /\ scores[i] = scores[j]
                               /\ IF lowFirst THEN i <= j ELSE i >= j
         IN  <<top>> \o ArgsortDescending(scores, rest \ {top}, lowFirst)

\* a threshold without the absolute floor
LightingThresholdRelative(best_score) == best_score * 85

\* threshold = max(0.2, best_score * 0.85), in units of 1e-5
LightingThreshold(best_score) == Max2(200 * 100, best_score * 85)

\* the loop over sorted_indices: stops at the first score below the threshold
RECURSIVE LightingLoop(_, _, _, _)
LightingLoop(scores, sorted_indices, k, threshold) ==
    IF k > Len(sorted_indices) THEN <<>>
    ELSE LET idx == sorted_indices[k]
         IN  IF scores[idx] * 100 < threshold THEN <<>>
             ELSE <<SceneAttributePrediction("lighting", LightingLabels[idx],
                                             10 * scores[idx])>>
                  \o LightingLoop(scores, sorted_indices, k + 1, threshold)

\* the multi-label branch for attribute == "lighting"
LightingPredictions(scores, lowFirst) ==
    LightingLoop(scores, ArgsortDescending(scores, 1..Len(scores), lowFirst), 1,
                 LightingThreshold(BestScore(scores)))

\* the single-label branch: similarity.argmax()
SingleLabelPrediction(attribute, labels, scores, lowFirst) ==
    LET best_idx == ArgsortDescending(scores, 1..Len(scores), lowFirst)[1]
    IN  <<SceneAttributePrediction(attribute, labels[best_idx], 10 * scores[best_idx])>>

\* classify_attributes_with_clip: the predictions, attribute by attribute
classify_attributes_with_clip(time_of_day, lighting, proto, lowFirst) ==
    SingleLabelPrediction("time_of_day", TimeOfDayLabels, time_of_day, lowFirst)
    \o LightingPredictions(FinalScores(lighting, proto), lowFirst)

\* cosine similarities of the image with the prompts
LightingScores == {-50, 100, 200, 765, 880, 900}

TimeOfDayScores == {<<-30, -80>>, <<250, 310>>}

ClassifyAttributesWithClip ==
    /\ ~clip.called
    /\ \E lowFirst \in BOOLEAN :
           clip' = [clip EXCEPT
                       !.called = TRUE,
                       !.predictions = classify_attributes_with_clip(
                           clip.time_of_day, clip.lighting, clip.proto, lowFirst)]
    /\ UNCHANGED <<pipelineVars, frameEmbeddings, calls, engine, sessions>>

InitClip ==
    /\ PipelineIdle
    /\ \E a, b, c, d \in LightingScores, t \in TimeOfDayScores,
          p \in {NoPrototype, 500} :
           clip = [IdleClip EXCEPT
                      !.time_of_day = t,
                      !.lighting = <<a, b, c, d, d, d, d, d>>,
                      !.proto = <<p>> \o [i \in 1..7 |-> NoPrototype]]
    /\ frameEmbeddings = <<>>
    /\ calls = [c \in Callers |-> IdleCall]
    /\ engine = IdleEngine
    /\ sessions = NoSessions

NextClip == ClassifyAttributesWithClip

SpecClip == InitClip /\ [][NextClip]_vars

\* the lighting predictions of the call
LightingOf(predictions) ==
    SelectSeq(predictions, LAMBDA q : q.attribute = "lighting")

LabelIndex(value) == CHOOSE i \in 1..Len(LightingLabels) : LightingLabels[i] = value

\* C11: the lighting predictions are exactly the labels whose final score is
\* at least max(0.2, 0.85 * best final score), one prediction per label, in
\* descending score order; for the scores 0.90, 0.88, 0.2, 0.1 (five times)
\* these are hard_light and soft_light.
C11_LightingMultiLabel ==
    clip.called =>
        LET final == FinalScores(clip.lighting, clip.proto)
            out == LightingOf(clip.predictions)
            chosen == {i \in 1..Len(final) :
                          \A j \in 1..Len(final) :
                              /\ final[i] * 100 >= 200 * 100
                              /\ final[i] * 100 >= 85 * final[j]}
        IN  /\ {out[k].value : k \in 1..Len(out)} = {LightingLabels[i] : i \in chosen}
            /\ Len(out) = Cardinality(chosen)
            /\ \A k \in 1..Len(out) - 1 : out[k].confidence >= out[k + 1].confidence
            /\ \A k \in 1..Len(out) :
                   out[k].confidence = 10 * final[LabelIndex(out[k].value)]
            /\ clip.lighting = <<900, 880, 200, 100, 100, 100, 100, 100>>
               /\ clip.proto[1] = NoPrototype
               => {out[k].value : k \in 1..Len(out)} = {"hard_light", "soft_light"}

C11_Witness ==
    /\ clip.called
    /\ clip.lighting = <<900, 880, 200, 100, 100, 100, 100, 100>>
    /\ clip.proto[1] = NoPrototype
    /\ Len(LightingOf(clip.predictions)) = 2

----------------------------------------------------------------------------
\* Prototype integration: _get_attribute_prototypes (services/vision.py) and
\* the label loop of the three places that score attributes

\* classify_attributes_with_clip and the score_attributes of the two pipelines
ScoringPaths == {"classify_attributes_with_clip", "clip_vitb32", "openclip_vitl14"}

\* image_features.shape[1]: ViT-L-14 is 768 wide, ViT-B-32 is 512 wide
ImageDim(path) == IF path = "openclip_vitl14" THEN 768 ELSE 512

\* a label without verified examples
NoCentroid == [dim |-> 0, count |-> 0]

\* _get_attribute_prototypes: the centroid of the verified frames'
\* Frame.embedding per label; examples[i] holds the widths of the embeddings of
\* label i. Without a session the map is empty; torch.tensor refuses vectors
\* of different widths (ValueError)
get_attribute_prototypes(session, examples) ==
    IF ~session
    THEN [raised |-> NullStr, map |-> [i \in DOMAIN examples |-> NoCentroid]]
    ELSE IF \E i \in DOMAIN examples :
                \E a, b \in 1..Len(examples[i]) : examples[i][a] # examples[i][b]
    THEN [raised |-> "ValueError", map |-> [i \in DOMAIN examples |-> NoCentroid]]
    ELSE [raised |-> NullStr,
          map |-> [i \in DOMAIN examples |->
                      IF examples[i] = <<>> THEN NoCentroid
                      ELSE [dim |-> examples[i][1], count |-> Len(examples[i])]]]

\* clip_vitb32 calls _get_attribute_prototypes with the keyword pipeline_id,
\* which is not one of its parameters (TypeError)
PassesUnknownKeyword(path) == path = "clip_vitb32"

\* only openclip_vitl14 compares proto_vec.shape[0] with
\* image_features.shape[1] before the matrix product
ChecksDimension(path) == path = "openclip_vitl14"

\* image_features @ proto_vec.unsqueeze(0).T of a centroid of another width
\* (RuntimeError)
MatmulRaises(path, proto_map) ==
    /\ ~ChecksDimension(path)
    /\ \E i \in DOMAIN proto_map :
           proto_map[i].count > 0 /\ proto_map[i].dim # ImageDim(path)

\* proto_sim per label, NoPrototype for a label that is not blended
UsedPrototypes(path, proto_map, sims) ==
    [i \in 1..Len(sims) |->
        IF proto_map[i].count > 0 /\ proto_map[i].dim = ImageDim(path)
        THEN sims[i] ELSE NoPrototype]

ScoringRaised(exc) == [raised |-> exc, final |-> <<>>, predictions |-> <<>>]

\* one scoring call; the verified examples are of lighting labels, sims[i] is
\* the similarity of the image with the centroid of label i
ScoreWithPrototypes(path, session, time_of_day, lighting, examples, sims, lowFirst) ==
    LET wrapped(exc) == IF path = "classify_attributes_with_clip" THEN exc
                        ELSE "RuntimeError"
        loaded == get_attribute_prototypes(session, examples)
        used == UsedPrototypes(path, loaded.map, sims)
    IN  IF session /\ PassesUnknownKeyword(path)
        THEN ScoringRaised(wrapped("TypeError"))
        ELSE IF loaded.raised # NullStr
        THEN ScoringRaised(wrapped(loaded.raised))
        ELSE IF MatmulRaises(path, loaded.map)
        THEN ScoringRaised(wrapped("RuntimeError"))
        ELSE [raised |-> NullStr,
              final |-> FinalScores(lighting, used),
              predictions |-> classify_attributes_with_clip(
                                  time_of_day, lighting, used, lowFirst)]

ScoreAttributes ==
    /\ ~clip.called
    /\ \E lowFirst \in BOOLEAN :
           LET r == ScoreWithPrototypes(clip.path, clip.session, clip.time_of_day,
                                        clip.lighting, clip.examples, clip.sims,
                                        lowFirst)
           IN  clip' = [clip EXCEPT !.called = TRUE, !.raised = r.raised,
                                    !.final = r.final,
                                    !.predictions = r.predictions]
    /\ UNCHANGED <<pipelineVars, frameEmbeddings, calls, engine, sessions>>

\* widths of Frame.embedding of the verified frames of a label: the 128-wide
\* fallback, ViT-B-32, ViT-L-14
ExampleWidths == {<<>>, <<512>>, <<768>>, <<128>>, <<512, 512>>, <<512, 128>>}

\* text scores of the eight lighting prompts
LightingTextScores ==
    {<<a, b, 200, 100, 100, 100, 100, 100>> : a, b \in LightingScores}
        \cup {<<0, 0, 0, 0, 0, 0, 0, 0>>}

InitBlend ==
    /\ PipelineIdle
    /\ \E path \in ScoringPaths, session \in BOOLEAN, t \in TimeOfDayScores,
          l \in LightingTextScores, e1 \in ExampleWidths,
          e3 \in {<<>>, <<512>>, <<768>>}, s1 \in {500, 950} :
           clip = [called |-> FALSE, path |-> path, session |-> session,
                   time_of_day |-> t, lighting |-> l,
                   examples |-> <<e1, <<>>, e3, <<>>, <<>>, <<>>, <<>>, <<>> >>,
                   sims |-> <<s1, 0, 1000, 0, 0, 0, 0, 0>>,
                   raised |-> NullStr, final |-> <<>>, predictions |-> <<>>]
    /\ frameEmbeddings = <<>>
    /\ calls = [c \in Callers |-> IdleCall]
    /\ engine = IdleEngine
    /\ sessions = NoSessions

NextBlend == ScoreAttributes

SpecBlend == InitBlend /\ [][NextBlend]_vars

\* a prototype of the frame embedding's width exists for lighting label i
HasUsablePrototype(i) ==
    /\ clip.session
    /\ clip.examples[i] # <<>>
    /\ \A a \in 1..Len(clip.examples[i]) : clip.examples[i][a] = ImageDim(clip.path)

\* a prototype of another width exists for lighting label i
HasMismatchedPrototype(i) ==
    /\ clip.session
    /\ clip.examples[i] # <<>>
    /\ \A a \in 1..Len(clip.examples[i]) :
           /\ clip.examples[i][a] = clip.examples[i][1]
           /\ clip.examples[i][a] # ImageDim(clip.path)

\* the lighting labels at or above max(0.2, 0.85 * best) of the scores
OverThreshold(scores) ==
    {LightingLabels[i] : i \in
        {i \in 1..Len(scores) :
            \A j \in 1..Len(scores) :
                /\ scores[i] * 100 >= 200 * 100
                /\ scores[i] * 100 >= 85 * scores[j]}}

\* C28: for every label the final score is 0.6 * text_score + 0.4 *
\* prototype_score when a prototype of the frame embedding's width exists for
\* the label, and the text score unchanged otherwise; the labels are selected
\* on these final scores.
C28_PrototypeBlending ==
    clip.called =>
        /\ Len(clip.final) = Len(clip.lighting)
        /\ \A i \in 1..Len(clip.final) :
               clip.final[i] = IF HasUsablePrototype(i)
                               THEN (6 * clip.lighting[i] + 4 * clip.sims[i]) \div 10
                               ELSE clip.lighting[i]
        /\ LET out == LightingOf(clip.predictions)
           IN  /\ {out[k].value : k \in 1..Len(out)} = OverThreshold(clip.final)
               /\ \A k \in 1..Len(out) :
                      out[k].confidence = 10 * clip.final[LabelIndex(out[k].value)]

\* C29: a prototype whose width differs from the frame embedding's never fails
\* the scoring, in any of the three scoring paths, and its label keeps the raw
\* text score.
C29_MismatchedPrototypeSkipped ==
    (clip.called /\ \E i \in 1..Len(clip.lighting) : HasMismatchedPrototype(i))
        => /\ clip.raised = NullStr
           /\ Len(clip.final) = Len(clip.lighting)
           /\ \A i \in 1..Len(clip.lighting) :
                  HasMismatchedPrototype(i) => clip.final[i] = clip.lighting[i]

----------------------------------------------------------------------------
\* Vision service (services/vision_service.py): analyze_frame with a chosen
\* pipeline, and the frame_embeddings table
\* (alembic/versions/20250101000000_frame_embeddings_per_pipeline.py)

\* the registered pipelines
Pipelines == {"clip_vitb32", "openclip_vitl14"}

\* EmbeddingResult.embedding of a pipeline for an image
PipelineEmbedding(pipeline_id, content) ==
    IF pipeline_id = "clip_vitb32" THEN ClipEmbedding(content) ELSE 20 + content

\* the rows of a (frame_id, pipeline_id) pair, by position
EmbeddingRows(tbl, frame_id, pipeline_id) ==
    {k \in 1..Len(tbl) : tbl[k].frame_id = frame_id /\ tbl[k].pipeline_id = pipeline_id}

\* the frame_embeddings table without its unique constraint
UniqueEmbeddingUnchecked(tbl, frame_id, pipeline_id) == TRUE

\* uq_frame_embedding_pipeline: TRUE when inserting a row of this pair is
\* allowed
UniqueEmbeddingAllows(tbl, frame_id, pipeline_id) ==
    EmbeddingRows(tbl, frame_id, pipeline_id) = {}

\* store_frame_embedding after its query: update the row found, or insert a
\* new one, and commit
store_frame_embedding(tbl, frame_id, pipeline_id, embedding, existing) ==
    LET rows == EmbeddingRows(tbl, frame_id, pipeline_id)
    IN  IF existing /\ rows # {}
        THEN LET first == CHOOSE k \in rows : \A j \in rows : k <= j
             IN  [ok |-> TRUE, tbl |-> [tbl EXCEPT ![first].embedding = embedding]]
        ELSE IF existing THEN [ok |-> TRUE, tbl |-> tbl]
        ELSE IF ~UniqueEmbeddingAllows(tbl, frame_id, pipeline_id)
        THEN [ok |-> FALSE, tbl |-> tbl]
        ELSE [ok |-> TRUE,
              tbl |-> Append(tbl, [frame_id |-> frame_id, pipeline_id |-> pipeline_id,
                                   embedding |-> embedding])]

\* _load_frame_image: object storage first, then the file path; 0 when both
\* fail (ValueError)
load_frame_image(fl, frame) ==
    IF frame.storage_uri # NullStr /\ StorageContent(frame.storage_uri) > 0
    THEN StorageContent(frame.storage_uri)
    ELSE IF fl[frame.file_path] > 0 THEN fl[frame.file_path]
    ELSE 0

\* cosine similarities of an image with the prompts of the two attributes
PromptSimilarity(content) ==
    IF content % 2 = 1
    THEN [time_of_day |-> <<250, 310>>,
          lighting |-> <<900, 880, 200, 100, 100, 100, 100, 100>>]
    ELSE [time_of_day |-> <<-30, -80>>,
          lighting |-> <<-50, 100, -50, -50, -50, -50, -50, -50>>]

\* pipeline.score_attributes: AttributeScore list, no prototypes stored
score_attributes(content) ==
    classify_attributes_with_clip(PromptSimilarity(content).time_of_day,
                                  PromptSimilarity(content).lighting,
                                  [i \in 1..8 |-> NoPrototype], TRUE)

\* _store_attributes: the rows inserted, confidence as scored (units of 1e-3)
StoredAttributes(scores) ==
    [k \in 1..Len(scores) |->
        [attribute |-> scores[k].attribute, value |-> scores[k].value,
         confidence |-> scores[k].confidence \div 10, is_verified |-> FALSE]]

\* a replace that spares the rows a moderator has verified
store_attributes_keeping_verified(rows, scores) ==
    SelectSeq(rows, LAMBDA row : row.is_verified) \o StoredAttributes(scores)

\* _store_attributes: the frame's rows after the delete of all its rows and
\* the inserts
store_attributes(rows, scores) ==
    DeleteSceneAttributes(rows) \o StoredAttributes(scores)

\* the request has been answered: only its outcome is kept
Failed(exc) == [IdleCall EXCEPT !.pc = "failed", !.exc = exc]

Done(cached) == [IdleCall EXCEPT !.pc = "done", !.cached = cached]

Fail(c, exc) == calls' = [calls EXCEPT ![c] = Failed(exc)]

\* analyze_frame up to pipeline.embed_image
AnalyzeFrame(c, frame_id, pipeline_id, force) ==
    /\ calls[c].pc \in {"idle", "done", "failed"}
    /\ LET call == [IdleCall EXCEPT !.frame_id = frame_id, !.pipeline_id = pipeline_id,
                                    !.force = force]
           content == IF FrameExists(frames, frame_id)
                      THEN load_frame_image(localFiles, frames[frame_id]) ELSE 0
       IN  \E encOk \in BOOLEAN :
               calls' = [calls EXCEPT ![c] =
                   IF pipeline_id \notin Pipelines
                   THEN Failed("KeyError")
                   ELSE IF ~FrameExists(frames, frame_id)
                   THEN Failed("ValueError")
                   ELSE IF ~force /\ EmbeddingRows(frameEmbeddings, frame_id, pipeline_id) # {}
                   THEN Done(TRUE)
                   ELSE IF content = 0
                   THEN Failed("ValueError")
                   ELSE IF ~encOk
                   THEN Failed("RuntimeError")
                   ELSE [call EXCEPT !.pc = "embedded", !.content = content]]
    /\ UNCHANGED <<pipelineVars, clip, frameEmbeddings, engine, sessions>>

\* store_frame_embedding: the query for an existing row
StoreQuery(c) ==
    /\ calls[c].pc = "embedded"
    /\ calls' = [calls EXCEPT
                    ![c].pc = "queried",
                    ![c].existing = EmbeddingRows(frameEmbeddings, calls[c].frame_id,
                                                  calls[c].pipeline_id) # {}]
    /\ UNCHANGED <<pipelineVars, clip, frameEmbeddings, engine, sessions>>

\* store_frame_embedding: update or insert, and commit
StoreWrite(c) ==
    /\ calls[c].pc = "queried"
    /\ LET r == store_frame_embedding(
                    frameEmbeddings, calls[c].frame_id, calls[c].pipeline_id,
                    PipelineEmbedding(calls[c].pipeline_id, calls[c].content),
                    calls[c].existing)
       IN  /\ frameEmbeddings' = r.tbl
           /\ IF r.ok THEN calls' = [calls EXCEPT ![c].pc = "stored"]
              ELSE Fail(c, "IntegrityError")
    /\ UNCHANGED <<pipelineVars, clip, engine, sessions>>

\* analyze_frame from pipeline.score_attributes to its last commit; the
\* session it passes is never None
StoreAttributes(c) ==
    /\ calls[c].pc = "stored"
    /\ \E clfOk \in BOOLEAN :
           IF ~clfOk \/ PassesUnknownKeyword(calls[c].pipeline_id)
           THEN /\ Fail(c, "RuntimeError")
                /\ UNCHANGED <<frames, sceneAttrs>>
           ELSE LET f == calls[c].frame_id
                IN  /\ sceneAttrs' = [sceneAttrs EXCEPT
                           ![f] = store_attributes(@, score_attributes(calls[c].content))]
                    /\ frames' = IF calls[c].pipeline_id = "clip_vitb32"
                                 THEN [frames EXCEPT
                                          ![f].embedding =
                                              PipelineEmbedding("clip_vitb32", calls[c].content),
                                          ![f].embedding_model = "CLIP",
                                          ![f].embedding_model_version =
                                              "open_clip_torch"]
                                 ELSE frames
                    /\ calls' = [calls EXCEPT ![c] = Done(FALSE)]
    /\ UNCHANGED <<actorDets, frameTags, localFiles, tasks, enrichQ, batch, probe, clip,
                   frameEmbeddings, engine, sessions>>

InitAnalyze ==
    /\ frames = <<NewFrame(1, "a.jpg", NullStr, NullStr, NullStr),
                  NewFrame(NullId, "b.jpg", NullStr, NullStr, NullStr),
                  NewFrame(2, "gone.jpg", NullStr, NullStr, NullStr)>>
    /\ EmptyTables
    /\ localFiles = InitialFiles
    /\ tasks = [t \in TaskIds |-> IdleTask]
    /\ enrichQ = {}
    /\ batch = IdleBatch
    /\ probe = NoProbe
    /\ ServicesIdle

NextAnalyze ==
    \/ \E c \in Callers, f \in FrameIds, p \in Pipelines \cup {"unknown"}, force \in BOOLEAN :
           AnalyzeFrame(c, f, p, force)
    \/ \E c \in Callers : StoreQuery(c)
    \/ \E c \in Callers : StoreWrite(c)
    \/ \E c \in Callers : StoreAttributes(c)

SpecAnalyze == InitAnalyze /\ [][NextAnalyze]_vars

----------------------------------------------------------------------------
\* Embedding engine (tasks/frames.py:_compute_embedding, embed_frame;
\* services/vision.py:encode_image_with_clip; vision_pipelines/*.embed_image).
\* A vector is [raw, scale2]: the elements raw[i] / sqrt(scale2).

\* the dimensions argument of _compute_embedding
dimensions == 128

\* sum of the squares of the elements of v whose value is in values
RECURSIVE SumSqOf(_, _)
SumSqOf(v, values) ==
    IF values = {} THEN 0
    ELSE LET x == CHOOSE y \in values : TRUE
         IN  x * x * Cardinality({i \in 1..Len(v) : v[i] = x}) + SumSqOf(v, values \ {x})

SumSq(v) == SumSqOf(v, {v[i] : i \in 1..Len(v)})

\* vector / vector.norm()
Normalize(v) == [raw |-> v, scale2 |-> SumSq(v)]

\* np.linalg.norm(vector) or 1.0, then vector / norm
NormalizeOrOne(v) == [raw |-> v, scale2 |-> IF SumSq(v) = 0 THEN 1 ELSE SumSq(v)]

Isqrt(n) == CHOOSE r \in 0..n : r * r <= n /\ n < (r + 1) * (r + 1)

\* rgb_array[row, col, channel]: the three channels are equal
Pixel(image, row, col) ==
    IF image.kind = "solid" THEN image.level
    ELSE IF col % 2 = 0 THEN 2 * image.level ELSE 0

downsample_factor(image) == Max2(1, Min2(image.height, image.width) \div 64)

\* shape of rgb_array[::f, ::f, :]
ReducedHeight(image) ==
    (image.height + downsample_factor(image) - 1) \div downsample_factor(image)

ReducedWidth(image) ==
    (image.width + downsample_factor(image) - 1) \div downsample_factor(image)

\* reduced.flatten()[i], i from 0
Flattened(image, i) ==
    LET p == i \div 3
    IN  Pixel(image, (p \div ReducedWidth(image)) * downsample_factor(image),
                     (p % ReducedWidth(image)) * downsample_factor(image))

FlattenedSize(image) == ReducedHeight(image) * ReducedWidth(image) * 3

\* sum of one channel of reduced, and of its squares
ChannelSum(image) ==
    LET f == downsample_factor(image)
        cols == {c \in 0..ReducedWidth(image) - 1 : TRUE}
        bright == Cardinality({c \in cols : Pixel(image, 0, c * f) # 0})
    IN  [n |-> ReducedHeight(image) * ReducedWidth(image),
         sum |-> ReducedHeight(image) * bright * Pixel(image, 0, 0),
         sumsq |-> ReducedHeight(image) * bright * Pixel(image, 0, 0) * Pixel(image, 0, 0)]

\* reduced.mean(axis=(0, 1)) and reduced.std(axis=(0, 1)), one channel
MeanChannel(image) == ChannelSum(image).sum \div ChannelSum(image).n

StdChannel(image) ==
    Isqrt(ChannelSum(image).sumsq \div ChannelSum(image).n
          - MeanChannel(image) * MeanChannel(image))

\* the sample of the flattened pixels: dimensions - 6 evenly spaced ones of
\* a large image, or all of a small image, padded by wrapping around
Sample(image) ==
    LET size == FlattenedSize(image)
    IN  IF size > dimensions
        THEN [k \in 1..dimensions - 6 |->
                 Flattened(image, ((k - 1) * (size - 1)) \div (dimensions - 7))]
        ELSE [k \in 1..size + Max2(0, dimensions - size) |->
                 Flattened(image, (k - 1) % size)]

\* _compute_embedding: the first dimensions elements of the normalized
\* concatenation of mean, std and sample
compute_embedding(image) ==
    LET m == MeanChannel(image)
        sd == StdChannel(image)
        vector == <<m, m, m, sd, sd, sd>> \o Sample(image)
        normalized == NormalizeOrOne(vector)
    IN  [normalized EXCEPT
            !.raw = SubSeq(normalized.raw, 1, Min2(dimensions, Len(vector)))]

\* model.encode_image: the features of an image before normalisation
EncodeImage(image) == <<image.level + 1, image.height, image.width>>

\* encode_image_with_clip, and embed_image of the vision pipelines
encode_image_with_clip(image) == Normalize(EncodeImage(image))

\* payload["embedding"] of the embedding service, stored as received; the
\* service is taken to return normalized vectors
ServiceEmbedding(image) == Normalize(EncodeImage(image))

\* the embedding embed_frame stores: the service or CLIP, and the fallback
\* when either raises
Embed(path) ==
    /\ engine.path = "none"
    /\ engine' = [engine EXCEPT
                     !.path = path,
                     !.embedding =
                         CASE path = "clip" -> encode_image_with_clip(engine.image)
                           [] path = "pipeline" -> encode_image_with_clip(engine.image)
                           [] path = "service" -> ServiceEmbedding(engine.image)
                           [] OTHER -> compute_embedding(engine.image)]
    /\ UNCHANGED <<pipelineVars, clip, frameEmbeddings, calls, sessions>>

\* sizes and grey levels of the frames
ImageSizes == {<<1, 1>>, <<2, 2>>, <<4, 4>>, <<6, 7>>, <<7, 8>>, <<10, 10>>, <<128, 130>>}

Images == {Image(s[1], s[2], kind, level) :
               s \in ImageSizes, kind \in {"solid", "stripes"}, level \in {0, 1, 3}}

InitEmbed ==
    /\ PipelineIdle
    /\ clip = IdleClip
    /\ frameEmbeddings = <<>>
    /\ calls = [c \in Callers |-> IdleCall]
    /\ sessions = NoSessions
    /\ \E image \in Images : engine = [IdleEngine EXCEPT !.image = image]

NextEmbed == \E path \in {"clip", "pipeline", "service", "fallback"} : Embed(path)

SpecEmbed == InitEmbed /\ [][NextEmbed]_vars

\* C13: every stored embedding has Euclidean norm 1, whichever path produced
\* it (CLIP, the embedding service, a pipeline's embed_image, the fallback
\* _compute_embedding), for every image size.
C13_EmbeddingsAreUnitVectors ==
    engine.path # "none" => SumSq(engine.embedding.raw) = engine.embedding.scale2

----------------------------------------------------------------------------
\* Atomicity of the stage functions (tasks/frames.py:_session_scope)

Stages == {"embed", "tag", "scene", "actors"}

\* the frame row is as before, or differs only by the failure mark
SameButFailureMark(before, after) ==
    \/ after = before
    \/ /\ after.status = "failed"
       /\ after = [before EXCEPT !.status = "failed",
                                 !.failure_reason = after.failure_reason]

\* C14: a stage that raises commits none of its changes: the frame's
\* SceneAttribute and ActorDetection rows, its tags and its columns are as
\* before the call, except for the failure mark (status = failed,
\* failure_reason), with the application's scoped session.
C14_StageWritesAllOrNothing ==
    [][(/\ probe'.stage \in Stages
        /\ ~probe'.ok
        /\ FrameExists(frames, probe'.frame_id))
       => /\ sceneAttrs' = sceneAttrs
          /\ actorDets' = actorDets
          /\ frameTags' = frameTags
          /\ Len(frames') = Len(frames)
          /\ \A i \in 1..Len(frames) : SameButFailureMark(frames[i], frames'[i])]_vars

----------------------------------------------------------------------------
\* Two executions of detect_actor_faces on one frame, each in a session of
\* its own (tasks/frames.py:_session_scope), against PostgreSQL at its
\* default isolation level READ COMMITTED (core/settings.py:database_url):
\* a DELETE acts on the rows committed when the statement starts and waits
\* for rows another transaction has deleted; the session has autoflush off,
\* so the inserts reach the database when the session commits.

Other(e) == CHOOSE o \in Executions : o # e

\* the transaction holds the locks of the rows it has deleted
Holding(e) == sessions.tx[e].pc \in {"deleted", "computed"}

\* positions of the frame's rows that the transaction has not deleted
Remaining(e) ==
    SelectSeq([k \in 1..Len(sessions.ids) |-> k],
              LAMBDA k : sessions.ids[k] \notin sessions.tx[e].targets)

RemainingRows(e) ==
    [k \in 1..Len(Remaining(e)) |-> actorDets[sessions.frame][Remaining(e)[k]]]

RemainingIds(e) == [k \in 1..Len(Remaining(e)) |-> sessions.ids[Remaining(e)[k]]]

\* session.get(Frame) and the DELETE statement of the stage
DeleteStatement(e) ==
    /\ sessions.tx[e].pc = "idle"
    /\ LET snapshot == {sessions.ids[k] : k \in 1..Len(sessions.ids)}
           waits == Holding(Other(e)) /\ sessions.tx[Other(e)].targets \cap snapshot # {}
       IN  sessions' = [sessions EXCEPT
                           !.tx[e].pc = IF waits THEN "blocked" ELSE "deleted",
                           !.tx[e].targets = snapshot]
    /\ UNCHANGED <<pipelineVars, clip, frameEmbeddings, calls, engine>>

\* the DELETE goes on once the other transaction has ended: the rows that
\* transaction deleted are skipped, the rows it inserted are not looked at
DeleteResumes(e) ==
    /\ sessions.tx[e].pc = "blocked"
    /\ ~Holding(Other(e))
    /\ sessions' = [sessions EXCEPT
                       !.tx[e].pc = "deleted",
                       !.tx[e].targets = @ \cap {sessions.ids[k] : k \in 1..Len(sessions.ids)}]
    /\ UNCHANGED <<pipelineVars, clip, frameEmbeddings, calls, engine>>

\* the body of the stage up to its return: the rows it adds to the session;
\* an exception rolls the transaction back
DetectFaces(e) ==
    /\ sessions.tx[e].pc = "deleted"
    /\ \E detOk \in BOOLEAN :
           LET f == sessions.frame
               r == detect_actor_faces_after_delete(DB, f, detOk, RemainingRows(e))
           IN  /\ localFiles' = r.db.files
               /\ sessions' = [sessions EXCEPT !.tx[e] =
                      IF r.ok
                      THEN [@ EXCEPT !.pc = "computed",
                                     !.rows = SubSeq(r.db.actors[f], Len(RemainingRows(e)) + 1,
                                                     Len(r.db.actors[f]))]
                      ELSE [IdleSession EXCEPT !.pc = "failed", !.exc = r.exc]]
    /\ UNCHANGED <<frames, sceneAttrs, actorDets, frameTags, tasks, enrichQ, batch, probe,
                   clip, frameEmbeddings, calls, engine>>

\* uq_actor_detection_frame_cast: a new row of a cast member clashes with a
\* row of the frame that is still there
ClashesWithRemaining(e) ==
    \E n \in 1..Len(sessions.tx[e].rows), k \in 1..Len(RemainingRows(e)) :
        /\ sessions.tx[e].rows[n].cast_member_id # NullId
        /\ sessions.tx[e].rows[n].cast_member_id = RemainingRows(e)[k].cast_member_id
        /\ sessions.tx[e].rows[n].face_index = RemainingRows(e)[k].face_index

\* session.commit() of _session_scope: flush of the inserts and of the
\* frame's status, then COMMIT
CommitSession(e) ==
    /\ sessions.tx[e].pc = "computed"
    /\ LET f == sessions.frame
           n == Len(sessions.tx[e].rows)
       IN  IF ClashesWithRemaining(e)
           THEN /\ sessions' = [sessions EXCEPT !.tx[e] =
                       [IdleSession EXCEPT !.pc = "failed", !.exc = "IntegrityError"]]
                /\ UNCHANGED <<frames, actorDets>>
           ELSE /\ actorDets' = [actorDets EXCEPT ![f] = RemainingRows(e) \o sessions.tx[e].rows]
                /\ frames' = [frames EXCEPT ![f].failure_reason = NullStr,
                                            ![f].status = "actors_detected"]
                /\ sessions' = [sessions EXCEPT
                                   !.ids = RemainingIds(e)
                                           \o [k \in 1..n |-> sessions.next + k - 1],
                                   !.next = @ + n,
                                   !.tx[e].pc = "committed",
                                   !.tx[e].targets = {}]
    /\ UNCHANGED <<sceneAttrs, frameTags, localFiles, tasks, enrichQ, batch, probe,
                   clip, frameEmbeddings, calls, engine>>

\* both tasks have returned; the frame is analysed again later on (the
\* primary keys are renumbered, no transaction refers to them)
AnalyzeAgain ==
    /\ \A e \in Executions : sessions.tx[e].pc \in {"committed", "failed"}
    /\ sessions' = [sessions EXCEPT
                       !.ids = [k \in 1..Len(sessions.ids) |-> k],
                       !.next = Len(sessions.ids) + 1,
                       !.tx = [e \in Executions |-> IdleSession]]
    /\ UNCHANGED <<pipelineVars, clip, frameEmbeddings, calls, engine>>

InitConcurrent ==
    /\ frames = <<NewFrame(2, "a.jpg", NullStr, NullStr, NullStr),
                  NewFrame(1, "d.jpg", NullStr, NullStr, NullStr),
                  NewFrame(1, "gone.jpg", NullStr, NullStr, NullStr),
                  NewFrame(2, "c.jpg", NullStr, NullStr, NullStr)>>
    /\ EmptyTables
    /\ localFiles = FaceFiles(2)
    /\ tasks = [t \in TaskIds |-> IdleTask]
    /\ enrichQ = {}
    /\ batch = IdleBatch
    /\ probe = NoProbe
    /\ clip = IdleClip
    /\ frameEmbeddings = <<>>
    /\ calls = [c \in Callers |-> IdleCall]
    /\ engine = IdleEngine
    /\ \E f \in 1..Len(frames) : sessions = [NoSessions EXCEPT !.frame = f]

NextConcurrent ==
    \/ \E e \in Executions : DeleteStatement(e)
    \/ \E e \in Executions : DeleteResumes(e)
    \/ \E e \in Executions : DetectFaces(e)
    \/ \E e \in Executions : CommitSession(e)
    \/ AnalyzeAgain

SpecConcurrent == InitConcurrent /\ [][NextConcurrent]_vars

\* C15: when two concurrent executions of the stage on one frame have both
\* committed, the frame's rows are exactly the rows one of the two inserted:
\* not the union of both, and not none.
C15_LastWriterWins ==
    (\A e \in Executions : sessions.tx[e].pc = "committed")
        => \E e \in Executions : actorDets[sessions.frame] = sessions.tx[e].rows

----------------------------------------------------------------------------
\* C16: in every reachable state and for every frame, failure_reason is
\* non-null only if status = "failed".
C16_FailureReasonOnlyWhenFailed ==
    \A i \in 1..Len(frames) : frames[i].failure_reason # NullStr => frames[i].status = "failed"


\* C17: whenever embed_frame, tag_frame, detect_scene_attributes or
\* detect_actor_faces has raised for an existing frame, the frame afterwards
\* has status "failed" and a failure_reason.
C17_StageFailureAttachedToFrame ==
    (/\ probe.stage \in Stages
     /\ ~probe.ok
     /\ FrameExists(frames, probe.frame_id))
        => /\ frames[probe.frame_id].status = "failed"
           /\ frames[probe.frame_id].failure_reason # NullStr


\* the request names a film that does not exist
NamesMissingFilm(q) == q.movie_id # NullId /\ q.movie_id \notin Movies

\* C18: a pipeline task whose request names a film that does not exist makes
\* one attempt only: it is never re-queued, and once it has failed a frame of
\* the request carries status "failed" and a failure_reason.
C18_FatalErrorsNotRetried ==
    \A t \in TaskIds :
        (tasks[t].pc # "idle" /\ NamesMissingFilm(tasks[t].req))
            => /\ tasks[t].retries = 0
               /\ tasks[t].pc = "failure"
                    => \E i \in FramesOf(tasks[t].req) :
                           /\ frames[i].status = "failed"
                           /\ frames[i].failure_reason # NullStr


\* the rows of the frame after one run of the stage and after a second run
\* that follows it at once, the face detector behaving alike in both
ActorRowsAfterRuns(f, detOk) ==
    LET once == detect_actor_faces(DB, f, detOk)
        twice == detect_actor_faces(once.db, f, detOk)
    IN  [ok |-> once.ok, again |-> twice.ok,
         once |-> once.db.actors[f], twice |-> twice.db.actors[f]]

\* C19: in every reachable state of the films' frames and tracks, a run of
\* detect_actor_faces on a frame that is followed at once by a second run
\* leaves the rows the first run left (same face_index, cast_member_id,
\* cluster_label and track_status for each face), none of them twice.
C19_ActorDetectionsIdempotent ==
    \A f \in 1..Len(frames), detOk \in BOOLEAN :
        LET runs == ActorRowsAfterRuns(f, detOk)
        IN  runs.ok => /\ runs.again
                       /\ runs.twice = runs.once
                       /\ NoDuplicateRows(runs.twice)

\* a frame with an unknown face has been analysed twice in a row while
\* another frame has rows
C19_Witness ==
    /\ probe.stage = "actors"
    /\ probe.runs >= 2
    /\ probe.ok
    /\ \E k \in 1..Len(actorDets[probe.frame_id]) :
           actorDets[probe.frame_id][k].cast_member_id = NullId
    /\ \E i \in 1..Len(frames) : i # probe.frame_id /\ actorDets[i] # <<>>


\* the (frame_id, pipeline_id) pair of a row of frame_embeddings
PairOf(row) == <<row.frame_id, row.pipeline_id>>

\* a step that writes the table for a pair touches rows of that pair only
OtherPairsUnchanged(pair) ==
    /\ Len(frameEmbeddings') >= Len(frameEmbeddings)
    /\ \A k \in 1..Len(frameEmbeddings) :
           PairOf(frameEmbeddings[k]) # pair => frameEmbeddings'[k] = frameEmbeddings[k]
    /\ \A k \in (Len(frameEmbeddings) + 1)..Len(frameEmbeddings') :
           PairOf(frameEmbeddings'[k]) = pair

----------------------------------------------------------------------------
\* embed_frame run on its own (frames.embed) over frames whose image is
\* local, in object storage, behind a signed URL, unreadable or nowhere
\* (SpecEmbedStage)

EmbedSeedFrames ==
    {NewFrame(1, "a.jpg", NullStr, NullStr, NullStr),
     NewFrame(NullId, "b.jpg", NullStr, NullStr, NullStr),
     NewFrame(2, "gone.jpg", "s3://frames/ok", NullStr, NullStr),
     NewFrame(NullId, "gone.jpg", NullStr, "http://signed/ok", NullStr),
     [NewFrame(1, "gone.jpg", "s3://frames/none", NullStr, NullStr)
          EXCEPT !.signed_url = "http://signed/ok"],
     NewFrame(NullId, "gone.jpg", NullStr, NullStr, NullStr),
     NewFrame(1, "junk.jpg", NullStr, NullStr, NullStr)}

InitEmbedStage ==
    /\ frames \in {<<a, b, c>> : a \in EmbedSeedFrames, b \in EmbedSeedFrames,
                                 c \in EmbedSeedFrames}
    /\ \A i \in 1..Len(frames) : UniqueStorageUriAllows(SubSeq(frames, 1, i - 1),
                                                       frames[i].storage_uri)
    /\ EmptyTables
    /\ localFiles = InitialFiles
    /\ tasks = [t \in TaskIds |-> IdleTask]
    /\ enrichQ = {}
    /\ batch = IdleBatch
    /\ probe = NoProbe
    /\ ServicesIdle

NextEmbedStage == \E f \in FrameIds : EmbedFrame(f)

SpecEmbedStage == InitEmbedStage /\ [][NextEmbedStage]_vars

\* the image of the frame, 0 when it cannot be materialised or opened
LoadableImage(frame) ==
    LET mat == materialize_frame(localFiles, frame)
    IN  IF mat.ok /\ mat.content # Junk THEN mat.content ELSE 0

\* C21: for every frame whose image can be loaded, embed_frame returns with
\* status "embedded" and an embedding stored, also when the encoder raised;
\* the vector stored in that case is the fallback vector of the image, a
\* function of the image alone.
C21_EmbeddingNeverStalls ==
    (/\ probe.stage = "embed"
     /\ FrameExists(frames, probe.frame_id)
     /\ LoadableImage(frames[probe.frame_id]) # 0)
        => LET frame == frames[probe.frame_id]
           IN  /\ probe.ok
               /\ frame.status = "embedded"
               /\ frame.embedding # NullId
               /\ frame.embedding_model = "rgb-histogram-v1"
                      => frame.embedding = FallbackEmbedding(LoadableImage(frame))

\* the encoder raised for a frame that had to be downloaded, and the frame
\* is embedded with the fallback vector
C21_Witness ==
    /\ probe.stage = "embed"
    /\ probe.ok
    /\ frames[probe.frame_id].file_path = "gone.jpg"
    /\ frames[probe.frame_id].embedding_model = "rgb-histogram-v1"
    /\ frames[probe.frame_id].status = "embedded"


\* one of the sources the frame has holds its content: the local path, the
\* object in storage, the signed URL
SomeSourceResolves(frame) ==
    \/ localFiles[frame.file_path] # 0
    \/ frame.storage_uri # NullStr /\ StorageContent(frame.storage_uri) # 0
    \/ frame.signed_url # NullStr /\ SignedContent(frame.signed_url) # 0

\* the errors with which _materialize_frame gives up
MaterializeErrors == {"FileNotFoundError", "ClientError", "HTTPError"}

\* C22: the materialiser goes on to the next source whenever the earlier ones
\* did not resolve: a stage fails to materialise a frame only when none of
\* the sources the frame has resolves.
C22_MaterializerTriesEverySource ==
    (/\ probe.stage = "embed"
     /\ FrameExists(frames, probe.frame_id)
     /\ ~probe.ok
     /\ probe.exc \in MaterializeErrors)
        => ~SomeSourceResolves(frames[probe.frame_id])


\* C23: detect_scene_attributes on a frame whose image can be loaded returns,
\* sets status "scene_annotated" and leaves at least one SceneAttribute row
\* (the fallback time_of_day row when the classifier gave nothing).
C23_SceneStageAlwaysAnnotates ==
    (/\ probe.stage = "scene"
     /\ FrameExists(frames, probe.frame_id)
     /\ LoadableImage(frames[probe.frame_id]) # 0)
        => /\ probe.ok
           /\ frames[probe.frame_id].status = "scene_annotated"
           /\ sceneAttrs[probe.frame_id] # <<>>


\* the confidences of the candidates of a target embedding
CandidateConfidences(fr, e) ==
    {compute_similarity(e, fr[j].embedding) : j \in {i \in 1..Len(fr) : IsCandidate(fr, i, e)}}

\* C24: for the embedding of every frame without a film, match_movie returns
\* a match exactly when the highest confidence of a candidate, (cos + 1) / 2
\* clamped to [0, 1] and rounded to 4 decimals, is at least min_confidence,
\* and the confidence returned is that value; it returns None for an empty or
\* zero target and when no frame of a film has an embedding.
C24_MatchThreshold ==
    \A t \in 1..Len(frames) :
        frames[t].movie_id = NullId
        => LET e == frames[t].embedding
               result == match_movie(frames, e)
               confidences == CandidateConfidences(frames, e)
           IN  /\ ~HasVector(e) => ~result.found /\ ~result.raised
               /\ HasVector(e) =>
                     /\ result.found <=> \E c \in confidences : c >= min_confidence
                     /\ result.found => /\ result.confidence \in confidences
                                        /\ \A c \in confidences : c <= result.confidence
               /\ candidate_rows(frames) = <<>> => ~result.found /\ ~result.raised


\* the cast members of a film, as a set
CastSet(movie_id) == {CastOf(movie_id)[k] : k \in 1..Len(CastOf(movie_id))}

\* C25: a row of a detected face carries cast member c exactly when c is a
\* cast member of the frame's film whose reference embedding is the most
\* similar to the face and that similarity is at least the recognition
\* threshold; such a row has track_status "identified" and no cluster label;
\* every other row of a detected face has no cast member and, when the frame
\* has a film or a predicted film, the label unknown-face clustering gave it.
C25_CastRecognition ==
    \A f \in 1..Len(frames) : \A k \in 1..Len(actorDets[f]) :
        LET row == actorDets[f][k]
            cast == CastSet(frames[f].movie_id)
            score(c) == cosine_similarity(row.embedding, CastEmbedding(c))
            best == {c \in cast : /\ score(c) >= face_recognition_match_threshold
                                  /\ \A d \in cast : score(d) <= score(c)}
        IN  row.track_status # "seeded"
            => /\ row.cast_member_id # NullId
                  => /\ row.cast_member_id \in best
                     /\ row.track_status = "identified"
                     /\ row.cluster_label = NullId
               /\ row.cast_member_id = NullId
                  => /\ best = {}
                     /\ (frames[f].movie_id # NullId \/ frames[f].predicted_movie_id # NullId)
                            => /\ row.track_status \in {"new_track", "tracked"}
                               /\ row.cluster_label \notin {NullId, EmptyLabel}

\* a frame of a film with a cast holds a recognised face and an unknown one
C25_Witness ==
    \E f \in 1..Len(frames) :
        /\ \E k \in 1..Len(actorDets[f]) : actorDets[f][k].track_status = "identified"
        /\ \E k \in 1..Len(actorDets[f]) : actorDets[f][k].cast_member_id = NullId

----------------------------------------------------------------------------
\* detect_actor_faces over frames that have a film and frames that have a
\* predicted film only (SpecTracks)

\* a frame without a film that the match stage has attributed to a film
PredictedFrame(file_path, predicted_movie_id) ==
    [NewFrame(NullId, file_path, NullStr, NullStr, NullStr)
         EXCEPT !.status = "matched",
                !.predicted_movie_id = predicted_movie_id,
                !.match_confidence = 9000]

InitTracks ==
    /\ \E m4 \in Movies :
          frames = <<PredictedFrame("a.jpg", 2),
                     PredictedFrame("b.jpg", 2),
                     NewFrame(2, "c.jpg", NullStr, NullStr, NullStr),
                     NewFrame(m4, "d.jpg", NullStr, NullStr, NullStr)>>
    /\ EmptyTables
    /\ \E b \in {2, 3, 6} : localFiles = FaceFiles(b)
    /\ tasks = [t \in TaskIds |-> IdleTask]
    /\ enrichQ = {}
    /\ batch = IdleBatch
    /\ probe = NoProbe
    /\ ServicesIdle

SpecTracks == InitTracks /\ [][NextFaces]_vars

\* the labels of the unknown tracks that exist for the film of frame f when
\* the face at row k of f is clustered: those of the other frames clustered
\* with that film and those given earlier in the same run
ExistingTrackLabels(f, k) ==
    {actorDets[p[1]][p[2]].cluster_label :
        p \in {q \in UNION {{<<j, r>> : r \in 1..Len(actorDets[j])} : j \in 1..Len(frames)} :
                 /\ actorDets[q[1]][q[2]].cast_member_id = NullId
                 /\ actorDets[q[1]][q[2]].cluster_label \in Nat \ {NullId}
                 /\ \/ q[1] # f /\ FilmOfFrame(q[1]) = FilmOfFrame(f)
                    \/ q[1] = f /\ q[2] < k}}

\* the highest label of a set, 0 when there is none
HighestLabel(labels) ==
    IF labels = {} THEN 0 ELSE CHOOSE n \in labels : \A m \in labels : m <= n

\* C26: after a run of detect_actor_faces, every face of the frame that
\* opened a new track carries the label one above the highest label among the
\* film's existing tracks and the labels minted earlier in the run, so that
\* its label is the label of no track that existed for the film.
C26_NewTrackLabelIsFresh ==
    (/\ probe.stage = "actors"
     /\ probe.ok
     /\ FilmOfFrame(probe.frame_id) # NullId)
    => LET f == probe.frame_id
       IN  \A k \in 1..Len(actorDets[f]) :
               actorDets[f][k].track_status = "new_track"
               => /\ actorDets[f][k].cluster_label \notin ExistingTrackLabels(f, k)
                  /\ actorDets[f][k].cluster_label
                         = HighestLabel(ExistingTrackLabels(f, k)) + 1


\* C27: a run of detect_actor_faces on a frame leaves the ActorDetection rows
\* of every other frame as they were: their cluster_label, track_status,
\* cast_member_id and embedding.
C27_OtherFramesUntouched ==
    [][probe'.stage = "actors"
          => \A j \in DOMAIN actorDets :
                 j # probe'.frame_id => actorDets'[j] = actorDets[j]]_vars

\* a run has put a face of its frame into a track that a face of another
\* frame of the film opened
C27_Witness ==
    /\ probe.stage = "actors"
    /\ probe.ok
    /\ \E k \in 1..Len(actorDets[probe.frame_id]) :
           /\ actorDets[probe.frame_id][k].track_status = "tracked"
           /\ \E j \in 1..Len(frames) :
                  /\ j # probe.frame_id
                  /\ frames[j].movie_id = frames[probe.frame_id].movie_id
                  /\ \E r \in 1..Len(actorDets[j]) :
                         actorDets[j][r].cluster_label
                             = actorDets[probe.frame_id][k].cluster_label


----------------------------------------------------------------------------
\* The mirror of the default pipeline into the frame's primary embedding
\* (SpecAnalyze)

\* the columns _store_attributes writes for the default pipeline
MirroredFields(frame) ==
    <<frame.embedding, frame.embedding_model, frame.embedding_model_version>>

\* the embedding of the FrameEmbedding row of a pair
StoredEmbedding(tbl, frame_id, pipeline_id) ==
    tbl[CHOOSE k \in EmbeddingRows(tbl, frame_id, pipeline_id) : TRUE].embedding

\* a step of caller c's analyze_frame with a pipeline other than clip_vitb32
StepOfOtherPipeline(c) ==
    /\ calls'[c] # calls[c]
    /\ \/ calls[c].pipeline_id \in Pipelines \ {"clip_vitb32"}
       \/ calls'[c].pipeline_id \in Pipelines \ {"clip_vitb32"}

\* the step that ends caller c's analyze_frame with clip_vitb32 once the
\* pipeline's row is stored
EndOfDefaultPipeline(c) ==
    /\ calls[c].pipeline_id = "clip_vitb32"
    /\ calls[c].pc = "stored"
    /\ calls'[c].pc \in {"done", "failed"}

\* C30: analyze_frame with a pipeline other than clip_vitb32 leaves
\* Frame.embedding, Frame.embedding_model and Frame.embedding_model_version
\* of every frame as they were, and analyze_frame with clip_vitb32 leaves
\* Frame.embedding equal to the embedding of the frame's clip_vitb32 row.
C30_OnlyDefaultPipelineMirrors ==
    [][\A c \in Callers :
          /\ StepOfOtherPipeline(c)
                 => \A j \in 1..Len(frames) :
                        MirroredFields(frames'[j]) = MirroredFields(frames[j])
          /\ EndOfDefaultPipeline(c)
                 => frames'[calls[c].frame_id].embedding =
                        StoredEmbedding(frameEmbeddings', calls[c].frame_id,
                                        "clip_vitb32")]_vars


----------------------------------------------------------------------------
\* Failure and caching of analyze_frame (SpecAnalyze)

\* caller c's analyze_frame ends by raising in this step
CallFails(c) == calls'[c].pc = "failed" /\ calls'[c] # calls[c]

\* caller c has inserted the row of its pair itself and nobody else has ever
\* called analyze_frame
OnlyWriterOfItsRow(c) ==
    /\ calls[c].pc = "stored"
    /\ ~calls[c].existing
    /\ \A d \in Callers \ {c} : calls[d].pc = "idle"

\* C31: when analyze_frame fails at any step, nothing the call wrote is
\* persisted: the frames and the scene attributes are as before the failing
\* step, and the FrameEmbedding row the call inserted is gone, so that no later
\* call finds it as a cached result.
C31_AnalyzeAllOrNothing ==
    [][\A c \in Callers :
          CallFails(c) =>
              /\ frames' = frames
              /\ sceneAttrs' = sceneAttrs
              /\ OnlyWriterOfItsRow(c)
                     => EmbeddingRows(frameEmbeddings', calls[c].frame_id,
                                      calls[c].pipeline_id) = {}]_vars


\* pipeline.score_attributes of caller c's call, given analyze_frame's session
\* and a database without verified frames, returns its scores
CanReturnUncached(c) ==
    ScoreWithPrototypes(calls[c].pipeline_id, TRUE,
                        PromptSimilarity(calls[c].content).time_of_day,
                        PromptSimilarity(calls[c].content).lighting,
                        [i \in 1..8 |-> <<>>], [i \in 1..8 |-> 0], TRUE).raised
        = NullStr

\* C32: analyze_frame with force = false on a pair that has a FrameEmbedding
\* row writes nothing and returns cached = true; with force = true, or without
\* a row, it never returns cached = true, and once the embedding is computed
\* and stored the call can go on to store the attributes, after which the
\* pair's row holds the embedding of this run, the frame's attributes are the
\* ones scored by this run and cached = false is returned.
C32_CachePerPair ==
    [][/\ \A c \in Callers, f \in FrameIds, p \in Pipelines, force \in BOOLEAN :
              (AnalyzeFrame(c, f, p, force) /\ FrameExists(frames, f)) =>
                  IF ~force /\ EmbeddingRows(frameEmbeddings, f, p) # {}
                  THEN /\ calls'[c] = Done(TRUE)
                       /\ frames' = frames
                       /\ sceneAttrs' = sceneAttrs
                       /\ frameEmbeddings' = frameEmbeddings
                  ELSE calls'[c] # Done(TRUE)
       /\ \A c \in Callers :
              calls[c].pc = "stored" =>
                  /\ CanReturnUncached(c)
                  /\ (StoreAttributes(c) /\ calls'[c].pc = "done") =>
                         /\ calls'[c] = Done(FALSE)
                         /\ sceneAttrs'[calls[c].frame_id] =
                                StoredAttributes(score_attributes(calls[c].content))
                         /\ EmbeddingRows(frameEmbeddings', calls[c].frame_id,
                                          calls[c].pipeline_id) # {}]_vars


----------------------------------------------------------------------------
\* The optional inference services (settings.embedding_service_url,
\* vision_service_url, face_analytics_service_url) in front of the on-process
\* models (SpecFallback)

\* a request to a service: it answers with a usable result, answers with
\* nothing usable, or raises (timeout, HTTP error)
ServiceOutcomes == {"ok", "empty", "fails"}

\* what computed the embedding embed_frame stores: the if/else of the inner
\* try calls the service or the encoder, and one except clause turns a failure
\* of either into _compute_embedding
EmbedBackend(service, encOk) ==
    IF service = "ok" THEN "service"
    ELSE IF service = "unset" /\ encOk THEN "encode_image_with_clip"
    ELSE "_compute_embedding"

\* detect_faces: the service's faces when some pass min_confidence, the
\* on-device detector and embedder otherwise
FacesBackend(service) ==
    IF service = "ok" THEN "service" ELSE "get_face_models"

\* predict_scene_attributes: the service's predictions when there are some,
\* the local classifier otherwise, ([], None) when that raises
SceneBackend(service, clfOk) ==
    IF service = "ok" THEN "service"
    ELSE IF clfOk THEN "classify_attributes_with_clip"
    ELSE "none"

\* embed_frame with the embedding service configured; the service is taken to
\* return the encoder's vector, and a payload without an embedding is not
\* modelled
embed_frame_with_service(db, frame_id, service, encOk) ==
    IF service = "ok"
    THEN LET r == embed_frame(db, frame_id, TRUE)
         IN  IF r.ok
             THEN Returned([r.db EXCEPT !.frames[frame_id].embedding_model = "service"],
                           frame_id)
             ELSE r
    ELSE embed_frame(db, frame_id, EmbedBackend(service, encOk) # "_compute_embedding")

\* detect_scene_attributes with the vision service configured: the service's
\* answer reaches the stage in a pair as well
detect_scene_attributes_with_service(db, frame_id, service, clfOk) ==
    detect_scene_attributes(db, frame_id, SceneBackend(service, clfOk) # "none")

\* detect_actor_faces with the face analytics service configured; the service
\* is taken to find the faces the on-device detector finds
detect_actor_faces_with_service(db, frame_id, service, detOk) ==
    detect_actor_faces(db, frame_id, service = "ok" \/ detOk)

\* the last stage call: its service's outcome, whether the on-process model
\* works, and what produced the result
NoServiceCall == [stage |-> "none", service |-> "unset", local |-> FALSE,
                  backend |-> "none"]

ServiceCall(stage, service, local, backend) ==
    engine' = [stage |-> stage, service |-> service, local |-> local,
               backend |-> backend]

EmbedFrameWithService(f) ==
    \E service \in {"ok", "fails"}, encOk \in BOOLEAN :
        LET r == embed_frame_with_service(DB, f, service, encOk)
        IN  /\ Commit(r.db)
            /\ Observe("embed", f, r)
            /\ ServiceCall("embed", service, encOk, EmbedBackend(service, encOk))
            /\ UNCHANGED <<tasks, enrichQ, batch, clip, frameEmbeddings, calls, sessions>>

DetectSceneAttributesWithService(f) ==
    \E service \in ServiceOutcomes, clfOk \in BOOLEAN :
        LET r == detect_scene_attributes_with_service(DB, f, service, clfOk)
        IN  /\ Commit(r.db)
            /\ Observe("scene", f, r)
            /\ ServiceCall("scene", service, clfOk, SceneBackend(service, clfOk))
            /\ UNCHANGED <<tasks, enrichQ, batch, clip, frameEmbeddings, calls, sessions>>

DetectActorFacesWithService(f) ==
    \E service \in ServiceOutcomes, detOk \in BOOLEAN :
        LET r == detect_actor_faces_with_service(DB, f, service, detOk)
        IN  /\ Commit(r.db)
            /\ Observe("actors", f, r)
            /\ ServiceCall("actors", service, detOk, FacesBackend(service))
            /\ UNCHANGED <<tasks, enrichQ, batch, clip, frameEmbeddings, calls, sessions>>

InitFallback ==
    /\ frames = <<NewFrame(2, "a.jpg", NullStr, NullStr, NullStr),
                  NewFrame(NullId, "b.jpg", NullStr, NullStr, NullStr),
                  NewFrame(1, "gone.jpg", NullStr, NullStr, NullStr)>>
    /\ EmptyTables
    /\ \E b \in {2, 3} : localFiles = FaceFiles(b)
    /\ tasks = [t \in TaskIds |-> IdleTask]
    /\ enrichQ = {}
    /\ batch = IdleBatch
    /\ probe = NoProbe
    /\ clip = IdleClip
    /\ frameEmbeddings = <<>>
    /\ calls = [c \in Callers |-> IdleCall]
    /\ engine = NoServiceCall
    /\ sessions = NoSessions

NextFallback ==
    \/ \E f \in FrameIds : EmbedFrameWithService(f)
    \/ \E f \in FrameIds : DetectSceneAttributesWithService(f)
    \/ \E f \in FrameIds : /\ \A n \in LabelsInUse : n < MaxLabel
                           /\ DetectActorFacesWithService(f)

SpecFallback == InitFallback /\ [][NextFallback]_vars

\* the on-process model of a stage
OnProcessModel(stage) ==
    CASE stage = "embed" -> "encode_image_with_clip"
      [] stage = "scene" -> "classify_attributes_with_clip"
      [] OTHER -> "get_face_models"

\* the last stage call was on a frame whose image loads, its service raised
\* and the on-process model works
ServiceFailedOnReadableFrame ==
    /\ probe.stage = engine.stage
    /\ engine.service = "fails"
    /\ engine.local
    /\ FrameExists(frames, probe.frame_id)
    /\ LoadableImage(frames[probe.frame_id]) > 0

\* C33: when the request to a stage's external service fails, the stage
\* computes its result with the on-process model (the encoder for embed_frame,
\* the on-device detector and embedder for detect_faces, the local CLIP
\* classifier for predict_scene_attributes) and completes.
C33_ServiceFailureFallsBack ==
    ServiceFailedOnReadableFrame
        => /\ engine.backend = OnProcessModel(engine.stage)
           /\ probe.ok


----------------------------------------------------------------------------
\* Temporary files of the materialiser and of import_frame (SpecTemp)

\* the name NamedTemporaryFile(delete=False) gives the file
TempPath == "tmp"

\* the paths that exist on disk
OnDisk(fl) == {p \in Paths : fl[p] # 0}

\* a finally clause that unlinks the path whatever the flag says
cleanup_unconditionally(cleanup, path, disk) == disk \ {path}

\* the finally clause of a stage: path.unlink() when cleanup is set and the
\* path exists
cleanup_temp(cleanup, path, disk) ==
    IF cleanup /\ path \in disk THEN disk \ {path} ELSE disk

\* no stage has run
NoStageFiles == [stage |-> "none", ok |-> FALSE, cleanup |-> FALSE, path |-> NullStr,
                 created |-> {}, during |-> {}, after |-> {}]

\* the files of a stage call on a frame: the path and the flag the
\* materialiser reports, the temporary file it created, the paths on disk
\* while the stage works and when it has returned or raised
StageFiles(stage, ok, fl, frame) ==
    LET mat == materialize_frame(fl, frame)
        created == IF mat.ok /\ mat.cleanup THEN {TempPath} ELSE {}
        path == IF ~mat.ok THEN NullStr
                ELSE IF mat.cleanup THEN TempPath ELSE frame.file_path
        during == OnDisk(mat.files) \cup created
    IN  [stage |-> stage, ok |-> ok, cleanup |-> mat.cleanup, path |-> path,
         created |-> created, during |-> during,
         after |-> cleanup_temp(mat.cleanup, path, during)]

\* the files of an import_frame call: temp_file is set once the signed URL's
\* (or the object's) content is in the temporary file
ImportFiles(ok, fl, q) ==
    LET local == ensure_local_copy(fl, q.file_path, q.storage_uri)
        temp == /\ ~local.ok
                /\ local.exc = "FileNotFoundError"
                /\ IF q.storage_uri # NullStr
                   THEN download_to_path(q.storage_uri) # 0
                   ELSE q.signed_url # NullStr /\ SignedContent(q.signed_url) # 0
        created == IF temp THEN {TempPath} ELSE {}
        during == OnDisk(local.files) \cup created
    IN  [stage |-> "import", ok |-> ok, cleanup |-> temp,
         path |-> IF temp THEN TempPath ELSE q.file_path,
         created |-> created, during |-> during,
         after |-> cleanup_temp(temp, TempPath, during)]

\* the number of frames imported
MaxStored == 1

\* one of the three stages that materialise the frame
StageWithFiles(stage, f) ==
    \E flag \in BOOLEAN :
        LET r == CASE stage = "embed" -> embed_frame(DB, f, flag)
                   [] stage = "scene" -> detect_scene_attributes(DB, f, flag)
                   [] OTHER -> detect_actor_faces(DB, f, flag)
        IN  /\ Commit(r.db)
            /\ engine' = IF FrameExists(frames, f)
                         THEN StageFiles(stage, r.ok, localFiles, frames[f])
                         ELSE [NoStageFiles EXCEPT !.stage = stage,
                                                   !.during = OnDisk(localFiles),
                                                   !.after = OnDisk(localFiles)]
            /\ UNCHANGED <<tasks, enrichQ, batch, probe, clip, frameEmbeddings, calls,
                           sessions>>

ImportWithFiles(q) ==
    /\ Len(frames) < MaxStored
    /\ LET r == import_frame(DB, q.file_path, q.movie_id, q.storage_uri,
                             q.signed_url, q.captured_at)
       IN  /\ Commit(r.db)
           /\ engine' = ImportFiles(r.ok, localFiles, q)
    /\ UNCHANGED <<tasks, enrichQ, batch, probe, clip, frameEmbeddings, calls, sessions>>

InitTemp ==
    /\ frames = <<>>
    /\ EmptyTables
    /\ localFiles = InitialFiles
    /\ tasks = [t \in TaskIds |-> IdleTask]
    /\ enrichQ = {}
    /\ batch = IdleBatch
    /\ probe = NoProbe
    /\ clip = IdleClip
    /\ frameEmbeddings = <<>>
    /\ calls = [c \in Callers |-> IdleCall]
    /\ engine = NoStageFiles
    /\ sessions = NoSessions

NextTemp ==
    \/ \E f \in FrameIds : StageWithFiles("embed", f)
    \/ \E f \in FrameIds : StageWithFiles("scene", f)
    \/ \E f \in FrameIds : /\ \A n \in LabelsInUse : n < MaxLabel
                           /\ StageWithFiles("actors", f)
    \/ \E q \in IngestRequests : ImportWithFiles(q)

SpecTemp == InitTemp /\ [][NextTemp]_vars

\* C34: whenever the materialiser (or import_frame) creates a temporary file
\* it reports cleanup = true, the stage has deleted the file when it returns
\* or raises, a path reported with cleanup = false is still there, and the
\* files the stage leaves are the files known to the next stage.
C34_TemporaryFilesCleanedUp ==
    engine.stage # "none" =>
        /\ engine.created # {} => engine.cleanup
        /\ engine.created \cap engine.after = {}
        /\ (~engine.cleanup /\ engine.path \in engine.during)
               => engine.path \in engine.after
        /\ engine.after = OnDisk(localFiles)

\* a stage raised, and another returned, after the materialiser had made a
\* temporary file for it
C34_Witness ==
    /\ engine.stage \in {"scene", "embed", "actors", "import"}
    /\ engine.created = {TempPath}
    /\ TempPath \in engine.during
    /\ ~engine.ok


----------------------------------------------------------------------------
\* Two workers running detect_actor_faces on two different frames, each in a
\* session of its own (SpecWorkers): the query of _cluster_unknown_faces sees
\* the rows committed when it runs, and the session's rows reach the table
\* when it commits

\* a worker that has not started
IdleWorker == [pc |-> "idle", frame |-> NullId, ok |-> FALSE, rows |-> <<>>]

WorkerSessions == [tx |-> [e \in Executions |-> IdleWorker]]

\* detect_actor_faces up to the end of its with block: the rows are computed
\* from the committed tables and held in the session
BeginDetection(e, f) ==
    /\ sessions.tx[e].pc = "idle"
    /\ FrameExists(frames, f)
    /\ \A o \in Executions \ {e} : sessions.tx[o].frame # f
    /\ \E detOk \in BOOLEAN :
           LET r == detect_actor_faces(DB, f, detOk)
           IN  /\ sessions' = [sessions EXCEPT
                                  !.tx[e] = [pc |-> "computed", frame |-> f, ok |-> r.ok,
                                             rows |-> r.db.actors[f]]]
               /\ localFiles' = r.db.files
    /\ UNCHANGED <<frames, sceneAttrs, actorDets, frameTags, tasks, enrichQ, batch, probe,
                   clip, frameEmbeddings, calls, engine>>

\* the exit of _session_scope: commit, or rollback when the stage raised
EndDetection(e) ==
    /\ sessions.tx[e].pc = "computed"
    /\ LET f == sessions.tx[e].frame
       IN  IF sessions.tx[e].ok
           THEN /\ actorDets' = [actorDets EXCEPT ![f] = sessions.tx[e].rows]
                /\ frames' = [frames EXCEPT ![f].failure_reason = NullStr,
                                            ![f].status = "actors_detected"]
                /\ sessions' = [sessions EXCEPT !.tx[e].pc = "committed"]
           ELSE /\ UNCHANGED <<actorDets, frames>>
                /\ sessions' = [sessions EXCEPT !.tx[e].pc = "failed"]
    /\ UNCHANGED <<sceneAttrs, frameTags, localFiles, tasks, enrichQ, batch, probe,
                   clip, frameEmbeddings, calls, engine>>

InitWorkers ==
    /\ \E m3 \in Movies, m4 \in {NullId, 1} :
          frames = <<NewFrame(2, "a.jpg", NullStr, NullStr, NullStr),
                     NewFrame(2, "b.jpg", NullStr, NullStr, NullStr),
                     NewFrame(m3, "c.jpg", NullStr, NullStr, NullStr),
                     NewFrame(m4, "d.jpg", NullStr, NullStr, NullStr)>>
    /\ EmptyTables
    /\ \E b \in {2, 3, 6} : localFiles = FaceFiles(b)
    /\ tasks = [t \in TaskIds |-> IdleTask]
    /\ enrichQ = {}
    /\ batch = IdleBatch
    /\ probe = NoProbe
    /\ clip = IdleClip
    /\ frameEmbeddings = <<>>
    /\ calls = [c \in Callers |-> IdleCall]
    /\ engine = IdleEngine
    /\ sessions = WorkerSessions

NextWorkers ==
    \/ \E e \in Executions, f \in FrameIds : BeginDetection(e, f)
    \/ \E e \in Executions : EndDetection(e)

SpecWorkers == InitWorkers /\ [][NextWorkers]_vars

\* the rows of a frame that opened a new unknown track
NewTracks(f) ==
    {k \in 1..Len(actorDets[f]) :
        /\ actorDets[f][k].cast_member_id = NullId
        /\ actorDets[f][k].track_status = "new_track"}

\* C35: when two workers have run detect_actor_faces on two different frames
\* of one film and both have committed, two faces that each opened a new
\* unknown track and are less similar than the clustering threshold do not
\* carry the same cluster_label.
C35_ConcurrentLabelsDistinct ==
    (\A e \in Executions : sessions.tx[e].pc = "committed")
        => \A e, o \in Executions :
               LET f == sessions.tx[e].frame
                   g == sessions.tx[o].frame
               IN  (f # g /\ frames[f].movie_id # NullId
                           /\ frames[f].movie_id = frames[g].movie_id)
                       => \A k \in NewTracks(f), j \in NewTracks(g) :
                              cosine_similarity(actorDets[f][k].embedding,
                                                actorDets[g][j].embedding)
                                  < face_unknown_match_threshold
                              => actorDets[f][k].cluster_label
                                     # actorDets[g][j].cluster_label


----------------------------------------------------------------------------
\* The enrichment task of a known-film ingest (Spec)

\* a finished run for a known film whose frame the enrichment task has
\* written: enrich_frame_metadata fills predicted_movie_id, which no stage of
\* the known-film pipeline writes
EnrichedKnownFilmRun(t) ==
    /\ tasks[t].pc = "success"
    /\ tasks[t].req.movie_id \in Movies
    /\ frames[tasks[t].frame_id].predicted_movie_id # NullId
    /\ \A e \in enrichQ : e.frame_id # tasks[t].frame_id

----------------------------------------------------------------------------
\* match_movie on corpora of mixed encoders (SpecMatch)

\* the corpus with the embeddings that cannot be compared with e taken out
ComparableCorpus(fr, e) ==
    [i \in 1..Len(fr) |-> IF IsCandidate(fr, i, e) THEN fr[i]
                          ELSE [fr[i] EXCEPT !.embedding = NullId]]

\* C37: for every stored embedding taken as the target and every corpus,
\* match_movie does not raise, and it returns what it returns on the corpus
\* without the candidates whose embedding is absent, of norm zero or of
\* another dimensionality than the target: such a candidate is skipped and
\* does not affect the others.
C37_MatchNeverRaises ==
    \A t \in 1..Len(frames) :
        LET e == frames[t].embedding
            r == match_movie(frames, e)
        IN  /\ ~r.raised
            /\ r = match_movie(ComparableCorpus(frames, e), e)


----------------------------------------------------------------------------
\* Re-analysis of a frame that already has scene attributes (SpecReanalyze)

\* the rows frame 1 may hold before the first call: none, a row a moderator
\* has verified, and that row beside a row an earlier run stored
PriorAttributes ==
    {<<>>,
     <<[attribute |-> "lighting", value |-> "silhouette", confidence |-> 1000,
        is_verified |-> TRUE]>>,
     <<[attribute |-> "lighting", value |-> "silhouette", confidence |-> 1000,
        is_verified |-> TRUE],
       [attribute |-> "time_of_day", value |-> "night", confidence |-> 187,
        is_verified |-> FALSE]>>}

InitReanalyze ==
    /\ frames = <<NewFrame(1, "a.jpg", NullStr, NullStr, NullStr)>>
    /\ \E prior \in PriorAttributes :
           sceneAttrs = [i \in FrameIds |-> IF i = 1 THEN prior ELSE <<>>]
    /\ actorDets = [i \in FrameIds |-> <<>>]
    /\ frameTags = [i \in FrameIds |-> {}]
    /\ localFiles = InitialFiles
    /\ tasks = [t \in TaskIds |-> IdleTask]
    /\ enrichQ = {}
    /\ batch = IdleBatch
    /\ probe = NoProbe
    /\ ServicesIdle

NextReanalyze ==
    \/ \E c \in Callers, f \in FrameIds, p \in Pipelines, force \in BOOLEAN :
           AnalyzeFrame(c, f, p, force)
    \/ \E c \in Callers : StoreQuery(c)
    \/ \E c \in Callers : StoreWrite(c)
    \/ \E c \in Callers : StoreAttributes(c)

SpecReanalyze == InitReanalyze /\ [][NextReanalyze]_vars

\* C38: the step in which analyze_frame returns cached = false leaves the
\* frame with exactly the rows scored by that run, none of them verified; no
\* row the frame had before is kept, verified or not, whichever pipeline wrote
\* it.
C38_ReanalysisReplacesAllRows ==
    [][\A c \in Callers :
          (StoreAttributes(c) /\ calls'[c] = Done(FALSE)) =>
              LET f == calls[c].frame_id
              IN  /\ sceneAttrs'[f] = StoredAttributes(score_attributes(calls[c].content))
                  /\ \A k \in 1..Len(sceneAttrs'[f]) : ~sceneAttrs'[f][k].is_verified
                  /\ \A g \in FrameIds \ {f} : sceneAttrs'[g] = sceneAttrs[g]]_vars

\* an analysis has returned cached = false on the frame that held a verified
\* row, and the row is gone
C38_Witness ==
    /\ \E c \in Callers : calls[c] = Done(FALSE)
    /\ sceneAttrs[1] # <<>>
    /\ \A k \in 1..Len(sceneAttrs[1]) : ~sceneAttrs[1][k].is_verified
    /\ frameEmbeddings # <<>>

====
